---- MODULE Spec2Model ----
(***************************************************************************)
(* Model of the chart-extraction backend (src/backend).                    *)
(*                                                                         *)
(*   services/chart_detector.py   ChartDetector (geometric classifier and  *)
(*                                region detector)                         *)
(*   services/ocr_service.py      OCRService                               *)
(*   services/inference_service.py  InferenceService                       *)
(*   routers/pdf_router.py        upload_pdf, process_pdf                  *)
(*   routers/image_router.py      upload_image, process_image              *)
(*   services/json_storage.py     JSONStorage                              *)
(*                                                                         *)
(* Numbers.  Python floats are modelled by exact rationals: a confidence   *)
(* is kept in tenths (0.6 is 6), a ratio is a pair <<num, den>> with       *)
(* den > 0, and a comparison with a decimal literal is done by cross       *)
(* multiplication.  For the integer pixel counts of an image the float     *)
(* division and the literals 0.05, 0.3, 0.5, 2.5, 3.0 compare exactly as   *)
(* the rationals do.                                                       *)
(***************************************************************************)
EXTENDS Integers, Sequences, FiniteSets, TLC

VARIABLES
    caps,               \* the optional models the singleton services hold
    processing_status,  \* routers/pdf_router.py: task id -> status record
    job,                \* task id -> the locals of its background task
    running,            \* the task whose background function is executing, or 0
    storage,            \* services/json_storage.py: data["extractions"]
    clock,              \* datetime.now(), in whole seconds
    used,               \* exceptions raised and images read so far in the run
    hist,               \* task id -> what was written and invoked for it
    probe               \* the call under study of a pure function

jobvars == <<caps, processing_status, job, running, storage, clock, used, hist>>

vars == <<caps, processing_status, job, running, storage, clock, used, hist, probe>>

(***************************************************************************)
(* Rationals                                                               *)
(***************************************************************************)
\* a < b for ratios a = <<an, ad>>, b = <<bn, bd>> with positive denominators
RatLess(a, b) == a[1] * b[2] < b[1] * a[2]

(***************************************************************************)
(* Images.  An image file is described by what the classifier reads of it: *)
(*   decodable      Image.open / convert succeed                           *)
(*   width, height  img_array.shape                                        *)
(*   unique_colors  len(resized.getcolors(maxcolors=10000))                *)
(*   h_edges        np.sum(edges_h > 50), out of (height-1)*width          *)
(*   v_edges        np.sum(edges_v > 50), out of height*(width-1)          *)
(***************************************************************************)
MkImage(w, h, c, he, ve) ==
    [decodable |-> TRUE, width |-> w, height |-> h, unique_colors |-> c,
     h_edges |-> he, v_edges |-> ve]

\* a file PIL cannot decode
UndecodableImage ==
    [decodable |-> FALSE, width |-> 0, height |-> 0, unique_colors |-> 0,
     h_edges |-> 0, v_edges |-> 0]

\* edges_h.size: np.diff along axis 0 drops one row
EdgesHSize(img) == (img.height - 1) * img.width

\* edges_v.size: np.diff along axis 1 drops one column
EdgesVSize(img) == img.height * (img.width - 1)

\* aspect_ratio = width / height if height > 0 else 1
AspectRatio(img) == IF img.height > 0 THEN <<img.width, img.height>> ELSE <<1, 1>>

\* h_lines = np.sum(edges_h > 50) / edges_h.size
HLines(img) == <<img.h_edges, EdgesHSize(img)>>

\* v_lines = np.sum(edges_v > 50) / edges_v.size
VLines(img) == <<img.v_edges, EdgesVSize(img)>>

(***************************************************************************)
(* ChartDetector._analyze_chart_characteristics                            *)
(***************************************************************************)
\* the colour / aspect-ratio rules with the lower aspect bound 0.5 inclusive
ColorAspectVerdict_inclusive(unique_colors, aspect_ratio) ==
    IF unique_colors < 50 /\ ~RatLess(aspect_ratio, <<5, 10>>)
                          /\ RatLess(aspect_ratio, <<25, 10>>)
    THEN [is_chart |-> TRUE, chart_type |-> "chart", confidence |-> 6]
    ELSE IF unique_colors < 100 /\ RatLess(<<3, 10>>, aspect_ratio)
                                /\ RatLess(aspect_ratio, <<30, 10>>)
    THEN [is_chart |-> TRUE, chart_type |-> "graph", confidence |-> 5]
    ELSE [is_chart |-> FALSE, chart_type |-> "image", confidence |-> 3]

\* lines 108-119: the colour / aspect-ratio rules
ColorAspectVerdict(unique_colors, aspect_ratio) ==
    IF unique_colors < 50 /\ RatLess(<<5, 10>>, aspect_ratio)
                          /\ RatLess(aspect_ratio, <<25, 10>>)
    THEN [is_chart |-> TRUE, chart_type |-> "chart", confidence |-> 6]
    ELSE IF unique_colors < 100 /\ RatLess(<<3, 10>>, aspect_ratio)
                                /\ RatLess(aspect_ratio, <<30, 10>>)
    THEN [is_chart |-> TRUE, chart_type |-> "graph", confidence |-> 5]
    ELSE [is_chart |-> FALSE, chart_type |-> "image", confidence |-> 3]

\* line 132: h_lines > 0.05 and v_lines > 0.05
TableLike(h_lines, v_lines) ==
    RatLess(<<5, 100>>, h_lines) /\ RatLess(<<5, 100>>, v_lines)

\* the table check tried only when the colour / aspect rules found no chart
ChartCharacteristics_elif(unique_colors, aspect_ratio, h_lines, v_lines) ==
    LET first == ColorAspectVerdict(unique_colors, aspect_ratio)
    IN  IF ~first.is_chart /\ TableLike(h_lines, v_lines)
        THEN [first EXCEPT !.is_chart = TRUE, !.chart_type = "table",
                           !.confidence = 7]
        ELSE first

\* lines 108-141 on the statistics of a decoded image: the colour / aspect
\* verdict is computed first, the table check then overwrites it
ChartCharacteristics(unique_colors, aspect_ratio, h_lines, v_lines) ==
    LET first == ColorAspectVerdict(unique_colors, aspect_ratio)
    IN  IF TableLike(h_lines, v_lines)
        THEN [first EXCEPT !.is_chart = TRUE, !.chart_type = "table",
                           !.confidence = 7]
        ELSE first

\* lines 84-145: a decode error yields the default verdict with confidence 0.0
_analyze_chart_characteristics(img) ==
    IF ~img.decodable
    THEN [is_chart |-> FALSE, chart_type |-> "image", confidence |-> 0]
    ELSE ChartCharacteristics(img.unique_colors, AspectRatio(img),
                              HLines(img), VLines(img))

\* lines 147-149
_fallback_detection(img) == _analyze_chart_characteristics(img)

(***************************************************************************)
(* ChartDetector.detect.  model_loaded is self.model being set; yolo is    *)
(* what invoking the object detector does on this image: it raises, or it  *)
(* returns boxes, collected as detections.                                 *)
(***************************************************************************)
YoloRaises == [raises |-> TRUE, detections |-> <<>>]

YoloReturns(dets) == [raises |-> FALSE, detections |-> dets]

\* lines 49-50 and 80-82: no exception leaves detect, whether the model is
\* unset or its invocation raises (the except clause answers the fallback,
\* which catches its own exceptions at lines 143-145)
detect_raises(model_loaded, yolo) == FALSE

\* detect answering the default verdict, without the geometric pass, when the
\* object detector raises
detect_no_fallback(model_loaded, yolo, img) ==
    IF ~model_loaded
    THEN _fallback_detection(img)
    ELSE IF yolo.raises
    THEN [is_chart |-> FALSE, chart_type |-> "image", confidence |-> 0]
    ELSE LET chart_analysis == _analyze_chart_characteristics(img)
         IN  [is_chart |-> chart_analysis.is_chart,
              chart_type |-> chart_analysis.chart_type,
              confidence |-> chart_analysis.confidence,
              detections |-> yolo.detections]

\* lines 38-82
detect(model_loaded, yolo, img) ==
    IF ~model_loaded
    THEN _fallback_detection(img)
    ELSE IF yolo.raises
    THEN _fallback_detection(img)
    ELSE LET chart_analysis == _analyze_chart_characteristics(img)
         IN  [is_chart |-> chart_analysis.is_chart,
              chart_type |-> chart_analysis.chart_type,
              confidence |-> chart_analysis.confidence,
              detections |-> yolo.detections]

(***************************************************************************)
(* Text.  A Python str is a sequence of one-character strings.             *)
(***************************************************************************)
Str1(a) == <<a>>

\* the decimal digits float() reads (Unicode category Nd), by their value:
\* DecimalDigits[v + 1] holds the digits of value v.  Of the digits outside
\* ASCII these are the ones a string of this module can hold (Extended
\* Arabic-Indic, NKo, Bengali, Gujarati, Tamil, Kannada, Sinhala, Lao, Khmer
\* and others); the remaining scripts are outside the alphabet of the model
DecimalDigits ==
    <<{"0", "۰", "߀", "০", "૦", "௦", "೦", "෦", "໐", "႐",
      "០", "᧐", "᪀", "᪐", "᮰", "꣐", "꧐", "꧰", "꯰"},
     {"1", "۱", "߁", "১", "૧", "௧", "೧", "෧", "໑", "႑",
      "១", "᧑", "᪁", "᪑", "᮱", "꣑", "꧑", "꧱", "꯱"},
     {"2", "۲", "߂", "২", "૨", "௨", "೨", "෨", "໒", "႒",
      "២", "᧒", "᪂", "᪒", "᮲", "꣒", "꧒", "꧲", "꯲"},
     {"3", "۳", "߃", "৩", "૩", "௩", "೩", "෩", "໓", "႓",
      "៣", "᧓", "᪃", "᪓", "᮳", "꣓", "꧓", "꧳", "꯳"},
     {"4", "۴", "߄", "৪", "૪", "௪", "೪", "෪", "໔", "႔",
      "៤", "᧔", "᪄", "᪔", "᮴", "꣔", "꧔", "꧴", "꯴"},
     {"5", "۵", "߅", "৫", "૫", "௫", "೫", "෫", "໕", "႕",
      "៥", "᧕", "᪅", "᪕", "᮵", "꣕", "꧕", "꧵", "꯵"},
     {"6", "۶", "߆", "৬", "૬", "௬", "೬", "෬", "໖", "႖",
      "៦", "᧖", "᪆", "᪖", "᮶", "꣖", "꧖", "꧶", "꯶"},
     {"7", "۷", "߇", "৭", "૭", "௭", "೭", "෭", "໗", "႗",
      "៧", "᧗", "᪇", "᪗", "᮷", "꣗", "꧗", "꧷", "꯷"},
     {"8", "۸", "߈", "৮", "૮", "௮", "೮", "෮", "໘", "႘",
      "៨", "᧘", "᪈", "᪘", "᮸", "꣘", "꧘", "꧸", "꯸"},
     {"9", "۹", "߉", "৯", "૯", "௯", "೯", "෯", "໙", "႙",
      "៩", "᧙", "᪉", "᪙", "᮹", "꣙", "꧙", "꧹", "꯹"}>>

Digits == UNION {DecimalDigits[k] : k \in 1..10}

\* the value of a decimal digit
DigitValue(c) == (CHOOSE k \in 1..10 : c \in DecimalDigits[k]) - 1

\* the characters both str.strip() and float() skip: blank, tab, line feed,
\* carriage return, form feed, vertical tab (U+000B), and the spaces U+0085,
\* U+00A0 and U+1680; the spaces from U+2000 on are outside the alphabet of
\* the model
FloatSpace ==
    {" ", "\t", "\n", "\r", "\f", "", "", " ", " "}

\* the separators U+001C..U+001F, which str.strip() removes and float() rejects
Separators == {"", "", "", ""}

\* characters str.strip() removes (str.isspace)
Whitespace == FloatSpace \cup Separators

\* the character at position i of a string constant
At(str, i) == SubSeq(str, i, i)

\* the characters of a string constant
Characters(str) == {At(str, i) : i \in 1..Len(str)}

\* the position of a character in a string constant that holds it
Position(str, c) == CHOOSE i \in 1..Len(str) : At(str, i) = c

\* a character no string constant holds is written by its code point, as in
\* "U+0253"; the one at position i of a string constant of code points
CodedAt(str, i) == SubSeq(str, 6 * i - 5, 6 * i)

\* the capital letters a string constant holds (A to Z, and the capitals of
\* U+0080..U+FFFF whose code point ends in a byte from 80 on) whose small
\* letter a string constant holds too. A capital letter no string constant
\* holds, as U+0130 or U+212A, is in no string of the model
UpperAlpha ==
    "ABCDEFGHIJKLMNOPQRSTUVWXYZÀÁÂÃÄÅÆÇÈÉÊËÌÍÎÏÐÑÒÓÔÕÖØÙÚÛÜÝÞƂƄƇƋ"
    \o "ƎƑƘƠƢƤƦƧƩƬƮƯƱƲƳƵƷƸƼǄǅǇǈǊǋǍǏǑǓǕǗǙǛǞǠǢǤǦǨǪǬǮǱǲǴǶǷǸǺǼǾΆΈΉΊΌΎΏΑΒ"
    \o "ΓΔΕΖΗΘΙΚΛΜΝΞΟΠΡΣΤΥΦΧΨΩΪΫϏϘϚϜϞϠϢϤϦϨϪϬϮϴϷϹϺҀҊҌҎҐҒҔҖҘҚҜҞҠҢҤҦҨҪҬ"
    \o "ҮҰҲҴҶҸҺҼҾӀӁӃӅӇӉӋӍӐӒӔӖӘӚӜӞӠӢӤӦӨӪӬӮӰӲӴӶӸӺӼӾᎰᎱᎲᎳᎴᎵᎶᎷᎸᎹᎺᎻᎼᎽᎾᎿᏀᏁᏂ"
    \o "ᏃᏄᏅᏆᏇᏈᏉᏊᏋᏌᏍᏎᏏᏐᏑᏒᏓᏔᏕᏖᏗᏘᏙᏚᏛᏜᏝᏞᏟᏠᏡᏢᏣᏤᏥᏦᏧᏨᏩᏪᏫᏬᏭᏮᏯᏰᏱᏲᏳᏴᏵᲐᲑᲒᲓᲔᲕᲖᲗᲘ"
    \o "ᲙᲚᲛᲜᲝᲞᲟᲠᲡᲢᲣᲤᲥᲦᲧᲨᲩᲪᲫᲬᲭᲮᲯᲰᲱᲲᲳᲴᲵᲶᲷᲸᲹᲺᲽᲾᲿẀẂẄẆẈẊẌẎẐẒẔẞẠẢẤẦẨẪẬẮẰẲẴ"
    \o "ẶẸẺẼẾỀỂỄỆỈỊỌỎỐỒỔỖỘỚỜỞỠỢỤỦỨỪỬỮỰỲỴỶỸỺỼỾᾈᾉᾊᾋᾌᾍᾎᾏᾘᾙᾚᾛᾜᾝᾞᾟᾨᾩᾪᾫᾬᾭᾮ"
    \o "ᾯᾸᾹᾼῌῘῙῨῩῬῼↃⒶⒷⒸⒹⒺⒻⒼⒽⒾⒿⓀⓁⓂⓃⓄⓅⓆⓇⓈⓉⓊⓋⓌⓍⓎⓏⲀⲂⲄⲆⲈⲊⲌⲎⲐⲒⲔⲖⲘⲚⲜⲞⲠⲢⲤⲦⲨⲪ"
    \o "ⲬⲮⲰⲲⲴⲶⲸⲺⲼⲾⳀⳂⳄⳆⳈⳊⳌⳎⳐⳒⳔⳖⳘⳚⳜⳞⳠⳢⳫⳭⳲꚀꚂꚄꚆꚈꚊꚌꚎꚐꚒꚔꚖꚘꚚꞀꞂꞄꞆꞋꞐꞒꞖꞘꞚꞜꞞꞠꞢꞤ"
    \o "ꞦꞨꞰꞱꞲꞴꞶꞸꞺꞼꞾꟀꟂꟄꟅꟆꟇꟉꟐꟖꟘꟵ"

\* at the position of each of these capital letters, the letter str.lower()
\* gives for it
LowerAlpha ==
    "abcdefghijklmnopqrstuvwxyzàáâãäåæçèéêëìíîïðñòóôõöøùúûüýþƃƅƈƌ"
    \o "ǝƒƙơƣƥʀƨʃƭʈưʊʋƴƶʒƹƽǆǆǉǉǌǌǎǐǒǔǖǘǚǜǟǡǣǥǧǩǫǭǯǳǳǵƕƿǹǻǽǿάέήίόύώαβ"
    \o "γδεζηθικλμνξοπρστυφχψωϊϋϗϙϛϝϟϡϣϥϧϩϫϭϯθϸϲϻҁҋҍҏґғҕҗҙқҝҟҡңҥҧҩҫҭ"
    \o "үұҳҵҷҹһҽҿӏӂӄӆӈӊӌӎӑӓӕӗәӛӝӟӡӣӥӧөӫӭӯӱӳӵӷӹӻӽӿꮀꮁꮂꮃꮄꮅꮆꮇꮈꮉꮊꮋꮌꮍꮎꮏꮐꮑꮒ"
    \o "ꮓꮔꮕꮖꮗꮘꮙꮚꮛꮜꮝꮞꮟꮠꮡꮢꮣꮤꮥꮦꮧꮨꮩꮪꮫꮬꮭꮮꮯꮰꮱꮲꮳꮴꮵꮶꮷꮸꮹꮺꮻꮼꮽꮾꮿᏸᏹᏺᏻᏼᏽაბგდევზთი"
    \o "კლმნოპჟრსტუფქღყშჩცძწჭხჯჰჱჲჳჴჵჶჷჸჹჺჽჾჿẁẃẅẇẉẋẍẏẑẓẕßạảấầẩẫậắằẳẵ"
    \o "ặẹẻẽếềểễệỉịọỏốồổỗộớờởỡợụủứừửữựỳỵỷỹỻỽỿᾀᾁᾂᾃᾄᾅᾆᾇᾐᾑᾒᾓᾔᾕᾖᾗᾠᾡᾢᾣᾤᾥᾦ"
    \o "ᾧᾰᾱᾳῃῐῑῠῡῥῳↄⓐⓑⓒⓓⓔⓕⓖⓗⓘⓙⓚⓛⓜⓝⓞⓟⓠⓡⓢⓣⓤⓥⓦⓧⓨⓩⲁⲃⲅⲇⲉⲋⲍⲏⲑⲓⲕⲗⲙⲛⲝⲟⲡⲣⲥⲧⲩⲫ"
    \o "ⲭⲯⲱⲳⲵⲷⲹⲻⲽⲿⳁⳃⳅⳇⳉⳋⳍⳏⳑⳓⳕⳗⳙⳛⳝⳟⳡⳣⳬⳮⳳꚁꚃꚅꚇꚉꚋꚍꚏꚑꚓꚕꚗꚙꚛꞁꞃꞅꞇꞌꞑꞓꞗꞙꞛꞝꞟꞡꞣꞥ"
    \o "ꞧꞩʞʇʝꞵꞷꞹꞻꞽꞿꟁꟃꞔʂᶎꟈꟊꟑꟗꟙꟶ"

\* the capital letters whose small letter no string constant holds
CodedUpper ==
    "ƁƆƉƊƏƐƓƔƖƗƜƝƟϽϾϿႠႡႢႣႤႥႦႧႨႩႪႫႬႭႮႯႰႱႲႳႴႵႶႷႸႹႺႻႼႽႾႿჀჁჂჃჄჅჇჍᎠᎡᎢᎣ"
    \o "ᎤᎥᎦᎧᎨᎩᎪᎫᎬᎭᎮᎯᾺΆῈΈῊΉῚΊῪΎῸΌῺΏꞍꞪꞫꞬꞭꞮꞳ"

\* at the position of each of these capital letters, the code point of the
\* letter str.lower() gives for it
CodedLower ==
    "U+0253U+0254U+0256U+0257U+0259U+025BU+0260U+0263U+0269U+0268"
    \o "U+026FU+0272U+0275U+037BU+037CU+037DU+2D00U+2D01U+2D02U+2D03"
    \o "U+2D04U+2D05U+2D06U+2D07U+2D08U+2D09U+2D0AU+2D0BU+2D0CU+2D0D"
    \o "U+2D0EU+2D0FU+2D10U+2D11U+2D12U+2D13U+2D14U+2D15U+2D16U+2D17"
    \o "U+2D18U+2D19U+2D1AU+2D1BU+2D1CU+2D1DU+2D1EU+2D1FU+2D20U+2D21"
    \o "U+2D22U+2D23U+2D24U+2D25U+2D27U+2D2DU+AB70U+AB71U+AB72U+AB73"
    \o "U+AB74U+AB75U+AB76U+AB77U+AB78U+AB79U+AB7AU+AB7BU+AB7CU+AB7D"
    \o "U+AB7EU+AB7FU+1F70U+1F71U+1F72U+1F73U+1F74U+1F75U+1F76U+1F77"
    \o "U+1F7AU+1F7BU+1F78U+1F79U+1F7CU+1F7DU+0265U+0266U+025CU+0261"
    \o "U+026CU+026AU+AB53"

Capitals == Characters(UpperAlpha)

CodedCapitals == Characters(CodedUpper)

\* the other cased characters: small letters without a capital, and letters
\* and signs with the property Lowercase or Uppercase that str.lower() keeps
OtherCased ==
    "ªµºÿƀƍƚƛƞƪƫƺƾǰʁʄʅʆʉʌʍʎʏʐʑʓʕʖʗʘʙʚʛʜʟʠʡʢʣʤʥʦʧʨʩʪʫʬʭʮʯʰʱʲʳʴʵʶʷʸ"
    \o "ˀˁˠˡˢˣˤΐΰςϐϑϒϓϔϕϖϰϱϳϵϼրցւփքօֆևֈᲀᲁᲂᲃᲄᲅᲆᲇᲈᶀᶁᶂᶃᶄᶅᶆᶇᶈᶉᶊᶋᶌᶍᶏᶐᶑᶒᶓᶔ"
    \o "ᶕᶖᶗᶘᶙᶚᶛᶜᶝᶞᶟᶠᶡᶢᶣᶤᶥᶦᶧᶨᶩᶪᶫᶬᶭᶮᶯᶰᶱᶲᶳᶴᶵᶶᶷᶸᶹᶺᶻᶼᶽᶾᶿẖẗẘẙẚẛẜẝẟᾲᾴᾶᾷιῂῄῆ"
    \o "ῇῒΐῖῗῢΰῤῦῧῲῴῶῷₐₑₒₓₔₕₖₗₘₙₚₛₜⳤꚜꚝꞎꞕꞯꟓꟕꟸꟹꟺ"

\* the characters with the Unicode property Cased
Cased ==
    Capitals \cup CodedCapitals \cup Characters(LowerAlpha \o OtherCased)
        \cup {CodedAt(CodedLower, i) : i \in 1..Len(CodedUpper)}

\* the characters with the Unicode property Case_Ignorable that a string
\* constant holds
CaseIgnorableMarks ==
    "'.:^¨­¯´·¸ʰʱʲʳʴʵʶʷʸʹʺʻʼʽʾʿˀˁ˂˃˄˅ˆˇˈˉˊˋˌˍˎˏːˑ˒˓˔˕˖˗˘˙˚˛˜˝˞˟ˠˡ"
    \o "ˢˣˤ˥˦˧˨˩˪˫ˬ˭ˮ˯˰˱˲˳˴˵˶˷˸˹˺˻˼˽˾˿΄΅·҃҄҅҆҇҈҉֑֖֛֢֣֤֚֒֓֔֕֗֘֙֜֝֞֟֠֡"
    \o "ְֱֲֳִֵֶַָׇֹֺֻּֽֿׁׂ֥֦֧֪ׅ֭֮֨֩֫֬֯ׄ״ۖۗۘۙۚۛۜ۝ۣ۟۠ۡۢۤۥۦ۪ۭۧۨ۫۬ަާިީުޫ"
    \o "ެޭޮޯް߲߫߬߭߮߯߰߱߳ߴߵߺ߽࢈࢐࢑࢙࢚࢛࢘࢜࢝࢞࢟ࣉ࣏࣐࣑࣒࣓࣊࣋࣌࣍࣎ࣔࣕࣖࣗࣘࣙࣚࣛࣜࣝࣞࣟ࣠࣡࣢ࣣࣦࣤࣥࣧ"
    \o "ࣰࣱࣲࣩ࣭࣮࣯ࣶࣹࣺࣨ࣪࣫࣬ࣳࣴࣵࣷࣸࣻࣼࣽࣾࣿঁ়ুূৃৄ্ৢৣ৾ઁં઼ુૂૃૄૅેૈ્ૢૣૺૻૼ૽૾૿ஂீ்ಁ಼ಿೆ"
    \o "ೌ್ೢೣඁ්ිීුූັິີຶື຺ຸູົຼໆ່້໊໋໌ໍ྄ཱྀྀྂྃ྆྇ྍྎྏྐྑྒྒྷྔྕྖྗྙྚྛྜྜྷྞྟྠྡྡྷྣྤྥྦྦྷ"
    \o "ྨྩྪྫྫྷྭྮྯྰྱྲླྴྵྶྷྸྐྵྺྻྼ࿆ႂႅႆႍႝჼ឴឵ិីឹឺុូួំ៉៊់៌៍៎៏័៑្៓ៗ៝ᢅᢆᢩᪧ᪰᪱᪲᪳᪴"
    \o "᪵᪶᪷᪸᪹᪺᪽᪻᪼᪾ᪿᫀ᫃᫄᫊᫁᫂᫅᫆᫇᫈᫉᫋ᫌᫍᫎᮀᮁᮢᮣᮤᮥᮨᮩ᮫ᮬᮭ᯦ᯨᯩᯭᯯᯰᯱ᳔᳕᳖᳗᳘᳙᳜᳝᳞᳟᳐᳑᳒᳚᳛᳠"
    \o "᳢᳣᳤᳥᳦᳧᳨᳭᳴᳸᳹ᶛᶜᶝᶞᶟᶠᶡᶢᶣᶤᶥᶦᶧᶨᶩᶪᶫᶬᶭᶮᶯᶰᶱᶲᶳᶴᶵᶶᶷᶸᶹᶺᶻᶼᶽᶾᶿ᷂᷊᷀᷁᷃᷄᷅᷆᷇᷈᷉᷋"
    \o "᷐᷎᷺᷏᷹᷽᷿᷷᷸᷌᷑᷒ᷓᷔᷕᷖᷗᷘᷙᷚᷛᷜᷝᷞᷟᷠᷡᷢᷣᷤᷥᷦᷧᷨᷩᷪᷫᷬᷭᷮᷯᷰᷱᷲᷳᷴ᷵᷻᷾᷶᷼᷍᾽᾿῀῁῍῎῏῝"
    \o "῞῟῭΅`´῾ₐₑₒₓₔₕₖₗₘₙₚₛₜ⃒⃓⃘⃙⃚⃐⃑⃔⃕⃖⃗⃛⃜⃝⃞⃟⃠⃡⃢⃣⃤⃥⃦⃪⃫⃨⃬⃭⃮⃯⃧⃩⃰⳯⳰⳱ⷠⷡⷢⷣ"
    \o "゙゚ⷤⷥⷦⷧⷨⷩⷪⷫⷬⷭⷮⷯⷰⷱⷲⷳⷴⷵⷶⷷⷸⷹⷺⷻⷼⷽⷾⷿ゛゜ゝゞーヽヾꓸꓹꓺꓻꓼꓽꚜꚝꚞꚟ꛰꛱ꞈ꞉꞊ꟲꟳꟴꟸꟹ꣄ꣅ꣠"
    \o "꣡꣢꣣꣤꣥꣦꣧꣨꣩꣪꣫꣬꣭꣮꣯꣰꣱ꣿꦀꦁꦂ꦳ꦶꦷꦸꦹꦼꦽꧏꧥꧦꪴꪰꪲꪳꪷꪸꪾ꪿꫁ꫝꫬꫭꫳꫴ꫶ꯥꯨ꯭﮲﮳﮴﮵﮶﮷﮸﮹﮺﮻﮼"
    \o "﮽﮾﮿﯀﯁﯂﻿ﾞﾟ￣￹￺￻"

\* the characters with the Unicode property Case_Ignorable; no string
\* constant holds the grave accent
CaseIgnorable == Characters(CaseIgnorableMarks) \cup {"U+0060"}

\* a capital sigma at i ends a word: going back over case-ignorable characters
\* there is a cased one, going on over them there is none. solid are the
\* positions of the characters that are not case-ignorable, cased those of the
\* cased characters
FinalSigma(solid, cased, i) ==
    /\ \E j \in solid : /\ j < i
                        /\ j \in cased
                        /\ \A k \in solid : ~(j < k /\ k < i)
    /\ \A j \in solid : (i < j /\ \A k \in solid : ~(i < k /\ k < j))
                            => j \notin cased

LowerChar(c) ==
    IF c \in Capitals THEN At(LowerAlpha, Position(UpperAlpha, c))
    ELSE IF c \in CodedCapitals THEN CodedAt(CodedLower, Position(CodedUpper, c))
    ELSE c

\* str.lower(): every capital letter by the table, but a capital sigma that
\* ends a word becomes the final small sigma
Lower(s) ==
    [i \in 1..Len(s) |->
        IF /\ s[i] = "Σ"
           /\ FinalSigma({j \in 1..Len(s) : s[j] \notin CaseIgnorable},
                         {j \in 1..Len(s) : s[j] \in Cased}, i)
        THEN "ς"
        ELSE LowerChar(s[i])]

\* str.replace(c, '')
Remove(s, c) == SelectSeq(s, LAMBDA x : x # c)

\* s without its leading characters of chars
RECURSIVE LStrip(_, _)
LStrip(s, chars) ==
    IF s # <<>> /\ Head(s) \in chars THEN LStrip(Tail(s), chars) ELSE s

\* s without its trailing characters of chars
RECURSIVE RStrip(_, _)
RStrip(s, chars) ==
    IF s # <<>> /\ s[Len(s)] \in chars
    THEN RStrip(SubSeq(s, 1, Len(s) - 1), chars)
    ELSE s

\* str.strip()
Strip(s) == RStrip(LStrip(s, Whitespace), Whitespace)

\* the text float() parses: s without the space around it
FloatStrip(s) == RStrip(LStrip(s, FloatSpace), FloatSpace)

\* sub in s
Contains(s, sub) ==
    \E i \in 0..(Len(s) - Len(sub)) : SubSeq(s, i + 1, i + Len(sub)) = sub

(***************************************************************************)
(* float(str): the strings Python accepts, and their values.               *)
(* A value is [kind |-> "nan"], [kind |-> "inf", neg |-> b] or             *)
(* [kind |-> "num", n |-> integer, d |-> power of ten], meaning n / d.     *)
(***************************************************************************)
\* digit (["_"] digit)*
RECURSIVE IsDigitPart(_)
IsDigitPart(s) ==
    /\ s # <<>>
    /\ Head(s) \in Digits
    /\ \/ Len(s) = 1
       \/ IsDigitPart(Tail(s))
       \/ Len(s) >= 3 /\ s[2] = "_" /\ IsDigitPart(SubSeq(s, 3, Len(s)))

\* the digits of a digit part, as a number
RECURSIVE DigitsValue(_)
DigitsValue(s) ==
    IF s = <<>> THEN 0
    ELSE IF s[Len(s)] = "_" THEN DigitsValue(SubSeq(s, 1, Len(s) - 1))
    ELSE 10 * DigitsValue(SubSeq(s, 1, Len(s) - 1))
         + DigitValue(s[Len(s)])

CountDigits(s) == Len(SelectSeq(s, LAMBDA x : x \in Digits))

RECURSIVE Pow10(_)
Pow10(k) == IF k <= 0 THEN 1 ELSE 10 * Pow10(k - 1)

\* position of the first x in s, 0 when there is none
FirstIndex(s, x) ==
    IF \E i \in 1..Len(s) : s[i] = x
    THEN CHOOSE i \in 1..Len(s) : s[i] = x /\ \A j \in 1..(i - 1) : s[j] # x
    ELSE 0

\* the mantissa: digitpart ["." [digitpart]] | "." digitpart
IsMantissa(s) ==
    LET dot == FirstIndex(s, ".")
        int == SubSeq(s, 1, dot - 1)
        frac == SubSeq(s, dot + 1, Len(s))
    IN  IF dot = 0 THEN IsDigitPart(s)
        ELSE /\ int = <<>> \/ IsDigitPart(int)
             /\ frac = <<>> \/ IsDigitPart(frac)
             /\ int # <<>> \/ frac # <<>>

\* the exponent after e / E: ["+" | "-"] digitpart
IsExponent(s) ==
    /\ s # <<>>
    /\ IF Head(s) \in {"+", "-"} THEN IsDigitPart(Tail(s)) ELSE IsDigitPart(s)

\* float() reads the letters of an exponent, of inf, infinity and nan in either
\* case: the letters A to Z as a to z, every other character as it is
AsciiUpper == <<"A", "B", "C", "D", "E", "F", "G", "H", "I", "J", "K", "L", "M",
                "N", "O", "P", "Q", "R", "S", "T", "U", "V", "W", "X", "Y", "Z">>

AsciiLower == <<"a", "b", "c", "d", "e", "f", "g", "h", "i", "j", "k", "l", "m",
                "n", "o", "p", "q", "r", "s", "t", "u", "v", "w", "x", "y", "z">>

FoldChar(c) ==
    IF \E i \in DOMAIN AsciiUpper : AsciiUpper[i] = c
    THEN AsciiLower[CHOOSE i \in DOMAIN AsciiUpper : AsciiUpper[i] = c]
    ELSE c

FoldAscii(s) == [i \in 1..Len(s) |-> FoldChar(s[i])]

\* an unsigned decimal number with an optional exponent
IsDecimal(s) ==
    LET e == FirstIndex(FoldAscii(s), "e")
    IN  IF e = 0 THEN IsMantissa(s)
        ELSE IsMantissa(SubSeq(s, 1, e - 1)) /\ IsExponent(SubSeq(s, e + 1, Len(s)))

IsInfNan(s) ==
    FoldAscii(s) \in {<<"i", "n", "f">>, <<"n", "a", "n">>,
                  <<"i", "n", "f", "i", "n", "i", "t", "y">>}

Unsigned(s) == IF s # <<>> /\ Head(s) \in {"+", "-"} THEN Tail(s) ELSE s

\* float(s) does not raise ValueError
IsFloat(s) ==
    LET body == Unsigned(FloatStrip(s))
    IN  IsDecimal(body) \/ IsInfNan(body)

\* mantissa n / d of an accepted mantissa string
MantissaValue(s) ==
    LET dot == FirstIndex(s, ".")
    IN  IF dot = 0 THEN [n |-> DigitsValue(s), d |-> 1]
        ELSE [n |-> DigitsValue(Remove(s, ".")),
              d |-> Pow10(CountDigits(SubSeq(s, dot + 1, Len(s))))]

ExponentValue(s) ==
    IF Head(s) = "-" THEN 0 - DigitsValue(Tail(s))
    ELSE IF Head(s) = "+" THEN DigitsValue(Tail(s))
    ELSE DigitsValue(s)

DecimalValue(s) ==
    LET e == FirstIndex(FoldAscii(s), "e")
        m == MantissaValue(IF e = 0 THEN s ELSE SubSeq(s, 1, e - 1))
        x == IF e = 0 THEN 0 ELSE ExponentValue(SubSeq(s, e + 1, Len(s)))
    IN  IF x >= 0 THEN [n |-> m.n * Pow10(x), d |-> m.d]
        ELSE [n |-> m.n, d |-> m.d * Pow10(0 - x)]

\* float(s) for a string float accepts; n / d is the magnitude, neg the sign
FloatValue(s) ==
    LET t == FloatStrip(s)
        neg == t # <<>> /\ Head(t) = "-"
        body == Unsigned(t)
    IN  IF FoldAscii(body) = <<"n", "a", "n">> THEN [kind |-> "nan"]
        ELSE IF IsInfNan(body) THEN [kind |-> "inf", neg |-> neg]
        ELSE LET v == DecimalValue(body)
             IN  [kind |-> "num", neg |-> neg, n |-> v.n, d |-> v.d]

\* a < b on floats; every comparison with nan is false
FloatLess(a, b) ==
    IF a.kind = "nan" \/ b.kind = "nan" THEN FALSE
    ELSE IF a.kind = "inf" THEN a.neg /\ ~(b.kind = "inf" /\ b.neg)
    ELSE IF b.kind = "inf" THEN ~b.neg
    ELSE (IF a.neg THEN 0 - a.n ELSE a.n) * b.d < (IF b.neg THEN 0 - b.n ELSE b.n) * a.d

\* the decimal digits of a natural number
RECURSIVE DecStr(_)
DecStr(k) ==
    LET last == <<"0", "1", "2", "3", "4", "5", "6", "7", "8", "9">>[(k % 10) + 1]
    IN  IF k < 10 THEN <<last>> ELSE Append(DecStr(k \div 10), last)

\* the digits of the fraction r / d (r < d, d a power of ten), trailing zeros dropped
RECURSIVE FracStr(_, _)
FracStr(r, d) ==
    IF r = 0 THEN <<>>
    ELSE <<DecStr((10 * r) \div d)[1]>> \o FracStr((10 * r) % d, d)

\* the number of zeros of the power of ten d
RECURSIVE Log10(_)
Log10(d) == IF d < 10 THEN 0 ELSE 1 + Log10(d \div 10)

\* the significant digits of n / d: the digits of n without trailing zeros
SignificantDigits(n) == RStrip(DecStr(n), {"0"})

\* the decimal exponent of n / d, n > 0: the place of its first digit
DecimalExponent(n, d) == Len(DecStr(n)) - 1 - Log10(d)

\* repr of a float in scientific notation: one digit, the others after a
\* point, and the exponent with its sign and at least two digits
ScientificStr(n, d) ==
    LET sig == SignificantDigits(n)
        e == DecimalExponent(n, d)
        mag == DecStr(IF e < 0 THEN 0 - e ELSE e)
    IN  <<Head(sig)>> \o (IF Len(sig) > 1 THEN <<".">> \o Tail(sig) ELSE <<>>)
        \o <<"e", IF e < 0 THEN "-" ELSE "+">>
        \o (IF Len(mag) < 2 THEN <<"0">> ELSE <<>>) \o mag

\* str(x) of a float: positional notation for decimal exponents -4..15,
\* scientific notation beyond
FloatStr(x) ==
    IF x.kind = "nan" THEN <<"n", "a", "n">>
    ELSE IF x.kind = "inf"
    THEN (IF x.neg THEN <<"-">> ELSE <<>>) \o <<"i", "n", "f">>
    ELSE LET frac == FracStr(x.n % x.d, x.d)
             e == IF x.n = 0 THEN 0 ELSE DecimalExponent(x.n, x.d)
         IN  (IF x.neg THEN <<"-">> ELSE <<>>)
             \o (IF e < 0 - 4 \/ e >= 16 THEN ScientificStr(x.n, x.d)
                 ELSE DecStr(x.n \div x.d) \o <<".">>
                      \o (IF frac = <<>> THEN <<"0">> ELSE frac))

(***************************************************************************)
(* Optional values: Python's None, and a present string.  A present dict   *)
(* is the record itself.                                                   *)
(***************************************************************************)
None == [none |-> TRUE]

Some(v) == [some |-> v]

(***************************************************************************)
(* OCRService (services/ocr_service.py).                                   *)
(* A line of the engine's result is [bbox, text, confidence], bbox the     *)
(* four corner points <<x, y>>.  x_center and y_center are kept doubled    *)
(* (box[0] + box[2], without the division by 2): the structurer uses only  *)
(* their differences' ratios, which the factor leaves unchanged.           *)
(***************************************************************************)
\* lines 159-166
_is_numeric(text) ==
    LET cleaned == Strip(Remove(Remove(Remove(Remove(text, ","), "%"), "$"), "-"))
    IN  IsFloat(cleaned)

\* lines 168-180
EmptyStructured ==
    [title |-> None, x_axis |-> None, y_axis |-> None, values |-> <<>>,
     legends |-> <<>>]

_empty_result == [raw_text |-> <<>>, boxes |-> <<>>, structured |-> EmptyStructured]

\* lines 63-69: the box built from a line of the engine's result
TextBox(line) ==
    [text |-> line.text, confidence |-> line.confidence, bbox |-> line.bbox,
     y_center |-> line.bbox[1][2] + line.bbox[3][2],
     x_center |-> line.bbox[1][1] + line.bbox[3][1]]

SeqMin(q) == CHOOSE m \in {q[i] : i \in 1..Len(q)} : \A i \in 1..Len(q) : m <= q[i]

SeqMax(q) == CHOOSE m \in {q[i] : i \in 1..Len(q)} : \A i \in 1..Len(q) : m >= q[i]

\* len(text) > len(old) for an optional old
LongerThan(text, old) == old = None \/ Len(text) > Len(old.some)

\* a loop body that tries the numeric test before the positional rules
StructureStep_numericFirst(acc, box, min_x, x_range, min_y, y_range) ==
    LET text == Strip(box.text)
        y_pos == IF y_range > 0 THEN <<box.y_center - min_y, y_range>> ELSE <<1, 2>>
        x_pos == IF x_range > 0 THEN <<box.x_center - min_x, x_range>> ELSE <<1, 2>>
        centred == RatLess(<<3, 10>>, x_pos) /\ RatLess(x_pos, <<7, 10>>)
    IN  IF _is_numeric(text)
        THEN [acc EXCEPT !.values = Append(@, text)]
        ELSE IF RatLess(y_pos, <<2, 10>>) /\ centred
        THEN IF LongerThan(text, acc.title)
             THEN [acc EXCEPT !.title = Some(text)] ELSE acc
        ELSE IF RatLess(<<8, 10>>, y_pos) /\ centred
        THEN IF LongerThan(text, acc.x_axis)
             THEN [acc EXCEPT !.x_axis = Some(text)] ELSE acc
        ELSE IF RatLess(x_pos, <<15, 100>>) /\ RatLess(<<2, 10>>, y_pos)
                                           /\ RatLess(y_pos, <<8, 10>>)
        THEN IF LongerThan(text, acc.y_axis)
             THEN [acc EXCEPT !.y_axis = Some(text)] ELSE acc
        ELSE IF RatLess(<<7, 10>>, x_pos)
                \/ (RatLess(<<7, 10>>, y_pos) /\ RatLess(<<5, 10>>, x_pos))
        THEN [acc EXCEPT !.legends = Append(@, text)]
        ELSE acc

\* lines 123-149: one turn of the loop over the boxes
StructureStep(acc, box, min_x, x_range, min_y, y_range) ==
    LET text == Strip(box.text)
        y_pos == IF y_range > 0 THEN <<box.y_center - min_y, y_range>> ELSE <<1, 2>>
        x_pos == IF x_range > 0 THEN <<box.x_center - min_x, x_range>> ELSE <<1, 2>>
        centred == RatLess(<<3, 10>>, x_pos) /\ RatLess(x_pos, <<7, 10>>)
    IN  IF RatLess(y_pos, <<2, 10>>) /\ centred
        THEN IF LongerThan(text, acc.title)
             THEN [acc EXCEPT !.title = Some(text)] ELSE acc
        ELSE IF RatLess(<<8, 10>>, y_pos) /\ centred
        THEN IF LongerThan(text, acc.x_axis)
             THEN [acc EXCEPT !.x_axis = Some(text)] ELSE acc
        ELSE IF RatLess(x_pos, <<15, 100>>) /\ RatLess(<<2, 10>>, y_pos)
                                           /\ RatLess(y_pos, <<8, 10>>)
        THEN IF LongerThan(text, acc.y_axis)
             THEN [acc EXCEPT !.y_axis = Some(text)] ELSE acc
        ELSE IF _is_numeric(text)
        THEN [acc EXCEPT !.values = Append(@, text)]
        ELSE IF RatLess(<<7, 10>>, x_pos)
                \/ (RatLess(<<7, 10>>, y_pos) /\ RatLess(<<5, 10>>, x_pos))
        THEN [acc EXCEPT !.legends = Append(@, text)]
        ELSE acc

RECURSIVE StructureLoop(_, _, _, _, _, _, _)
StructureLoop(acc, boxes, i, min_x, x_range, min_y, y_range) ==
    IF i > Len(boxes) THEN acc
    ELSE StructureLoop(StructureStep(acc, boxes[i], min_x, x_range, min_y, y_range),
                       boxes, i + 1, min_x, x_range, min_y, y_range)

\* lines 84-157
_structure_chart_text(boxes) ==
    IF boxes = <<>> THEN EmptyStructured
    ELSE LET all_y == [i \in 1..Len(boxes) |-> boxes[i].y_center]
             all_x == [i \in 1..Len(boxes) |-> boxes[i].x_center]
             min_y == SeqMin(all_y)
             max_y == SeqMax(all_y)
             min_x == SeqMin(all_x)
             max_x == SeqMax(all_x)
             y_range == IF max_y > min_y THEN max_y - min_y ELSE 1
             x_range == IF max_x > min_x THEN max_x - min_x ELSE 1
         IN  StructureLoop(EmptyStructured, boxes, 1, min_x, x_range, min_y, y_range)

\* what invoking the engine does: it raises, or returns lines (none for an
\* empty or missing result)
OcrRaises == [raises |-> TRUE, lines |-> <<>>]

OcrReturns(lines) == [raises |-> FALSE, lines |-> lines]

\* an extract_text without the try of line 48: the exception of the engine
\* leaves the function
extract_text_raises_unguarded(ocr_loaded, engine) == ocr_loaded /\ engine.raises

\* lines 45-46 and 80-82: no exception leaves extract_text, whether the engine
\* is unset or its invocation raises
extract_text_raises(ocr_loaded, engine) == FALSE

\* lines 35-82; ocr_loaded is self.ocr being set
extract_text(ocr_loaded, engine) ==
    IF ~ocr_loaded THEN _empty_result
    ELSE IF engine.raises THEN _empty_result
    ELSE IF engine.lines = <<>> THEN _empty_result
    ELSE LET boxes == [i \in 1..Len(engine.lines) |-> TextBox(engine.lines[i])]
         IN  [raw_text |-> [i \in 1..Len(engine.lines) |-> engine.lines[i].text],
              boxes |-> boxes,
              structured |-> _structure_chart_text(boxes)]

(***************************************************************************)
(* InferenceService (services/inference_service.py)                        *)
(***************************************************************************)
TrendIncreasing == <<"i", "n", "c", "r", "e", "a", "s", "i", "n", "g">>

TrendDecreasing == <<"d", "e", "c", "r", "e", "a", "s", "i", "n", "g">>

TrendStable == <<"s", "t", "a", "b", "l", "e">>

TrendFluctuating == <<"f", "l", "u", "c", "t", "u", "a", "t", "i", "n", "g">>

TrendUnknown == <<"u", "n", "k", "n", "o", "w", "n">>

\* str.split('\n')
RECURSIVE SplitLines(_)
SplitLines(text) ==
    LET nl == FirstIndex(text, "\n")
    IN  IF nl = 0 THEN <<text>>
        ELSE <<SubSeq(text, 1, nl - 1)>> \o SplitLines(SubSeq(text, nl + 1, Len(text)))

HasColon(line) == FirstIndex(line, ":") # 0

\* line.split(':', 1)[1].strip()
AfterColon(line) == Strip(SubSeq(line, FirstIndex(line, ":") + 1, Len(line)))

\* lines 115-129: one turn of the loop over the lines of the response
ParseLine(result, line) ==
    LET line_lower == Strip(Lower(line))
    IN  IF Contains(line_lower, <<"t", "r", "e", "n", "d">>) /\ HasColon(line)
        THEN [result EXCEPT !.trend = Some(AfterColon(line))]
        ELSE IF Contains(line_lower, <<"m", "a", "x">>) /\ HasColon(line)
        THEN [result EXCEPT !.max_point = [description |-> AfterColon(line)]]
        ELSE IF Contains(line_lower, <<"m", "i", "n">>) /\ HasColon(line)
        THEN [result EXCEPT !.min_point = [description |-> AfterColon(line)]]
        ELSE IF Contains(line_lower, <<"c", "o", "r", "r", "e", "l", "a", "t", "i",
                                       "o", "n">>) /\ HasColon(line)
        THEN [result EXCEPT !.correlations = Append(@, AfterColon(line))]
        ELSE IF Contains(line_lower, <<"a", "n", "o", "m", "a", "l">>) /\ HasColon(line)
        THEN [result EXCEPT !.anomalies = Append(@, AfterColon(line))]
        ELSE IF Contains(line_lower, <<"s", "u", "m", "m", "a", "r", "y">>)
                /\ HasColon(line)
        THEN [result EXCEPT !.summary = AfterColon(line)]
        ELSE result

RECURSIVE ParseLines(_, _, _)
ParseLines(result, lines, i) ==
    IF i > Len(lines) THEN result
    ELSE ParseLines(ParseLine(result, lines[i]), lines, i + 1)

\* a parser that leaves the trend unset
_parse_response_untrended(response_text, ocr_data) ==
    [ParseLines([trend |-> None, max_point |-> None, min_point |-> None,
                 correlations |-> <<>>, anomalies |-> <<>>,
                 summary |-> response_text],
                SplitLines(response_text), 1) EXCEPT !.trend = None]

\* lines 100-131
_parse_response(response_text, ocr_data) ==
    ParseLines([trend |-> None, max_point |-> None, min_point |-> None,
                correlations |-> <<>>, anomalies |-> <<>>,
                summary |-> response_text],
               SplitLines(response_text), 1)

\* lines 139-145: the values float() accepts once ',', '%' and '$' are removed
RECURSIVE NumericValues(_)
NumericValues(values) ==
    IF values = <<>> THEN <<>>
    ELSE LET cleaned == Remove(Remove(Remove(Head(values), ","), "%"), "$")
         IN  (IF IsFloat(cleaned) THEN <<FloatValue(cleaned)>> ELSE <<>>)
             \o NumericValues(Tail(values))

\* max(q): the first element no later element exceeds
RECURSIVE PyMax(_, _, _)
PyMax(best, q, i) ==
    IF i > Len(q) THEN best
    ELSE PyMax(IF FloatLess(best, q[i]) THEN q[i] ELSE best, q, i + 1)

\* min(q)
RECURSIVE PyMin(_, _, _)
PyMin(best, q, i) ==
    IF i > Len(q) THEN best
    ELSE PyMin(IF FloatLess(q[i], best) THEN q[i] ELSE best, q, i + 1)

\* line 170: the f-string, as its pieces in order
FallbackSummary(title, n, trend) ==
    <<"Chart with title '">> \o (IF title = None THEN <<"None">> ELSE title.some)
    \o <<"' showing ">> \o DecStr(n)
    \o <<" data points. Trend appears to be ">> \o trend \o <<".">>

\* lines 133-171
_fallback_inference(ocr_data) ==
    LET structured == ocr_data.structured
        values == structured.values
        numeric_values == NumericValues(values)
        k == Len(numeric_values)
        trend == IF k >= 2
                 THEN IF FloatLess(numeric_values[1], numeric_values[k])
                      THEN TrendIncreasing
                      ELSE IF FloatLess(numeric_values[k], numeric_values[1])
                      THEN TrendDecreasing
                      ELSE TrendStable
                 ELSE TrendUnknown
        max_val == PyMax(numeric_values[1], numeric_values, 2)
        min_val == PyMin(numeric_values[1], numeric_values, 2)
    IN  [trend |-> Some(trend),
         max_point |-> IF k >= 2
                       THEN [value |-> max_val, label |-> FloatStr(max_val)]
                       ELSE None,
         min_point |-> IF k >= 2
                       THEN [value |-> min_val, label |-> FloatStr(min_val)]
                       ELSE None,
         correlations |-> <<>>,
         anomalies |-> <<>>,
         summary |-> FallbackSummary(structured.title, Len(values), trend)]

\* what invoking the generative model does: building the prompt, the call or
\* reading response.text raises, or the response text is returned
LlmRaises == [raises |-> TRUE, text |-> <<>>]

LlmReturns(text) == [raises |-> FALSE, text |-> text]

\* lines 50-51 and 63-65: no exception leaves generate_inference, whether the
\* model is unset or its invocation raises (_fallback_inference catches the
\* exceptions of its own float() at lines 141-145)
generate_inference_raises(llm_loaded, llm) == FALSE

\* a generate_inference that parses whatever text it has when the call raised
generate_inference_unguarded(llm_loaded, llm, chart_type, ocr_data, pdf_context) ==
    IF ~llm_loaded THEN _fallback_inference(ocr_data)
    ELSE _parse_response(llm.text, ocr_data)

\* lines 31-65; llm_loaded is self.model being set
generate_inference(llm_loaded, llm, chart_type, ocr_data, pdf_context) ==
    IF ~llm_loaded THEN _fallback_inference(ocr_data)
    ELSE IF llm.raises THEN _fallback_inference(ocr_data)
    ELSE _parse_response(llm.text, ocr_data)

(***************************************************************************)
(* JSONStorage (services/json_storage.py)                                  *)
(***************************************************************************)
\* line 51: f"extraction_{now:%Y%m%d_%H%M%S}", now in whole seconds
ExtractionId(now) == <<"extraction_", now>>

\* lines 48-58: the record appended to data["extractions"]; now is the
\* reading of line 51 and later the reading of line 53
SavedRecord(result, now, later) ==
    [extraction_id |-> ExtractionId(now), saved_at |-> later] @@ result

\* lines 48-58: data["extractions"] after the save
save_extraction(data, result, now, later) ==
    Append(data, SavedRecord(result, now, later))

\* a record that an earlier run of the program saved, in a second before
\* this run started
EarlierRecord ==
    SavedRecord([pdf_name |-> <<"old.pdf">>, processed_at |-> -1,
                 total_pages |-> 1, extracted_text |-> <<>>,
                 extractions |-> <<>>], -1, -1)

\* lines 16-23: what the JSONStorage finds when it is constructed.
\* _ensure_file_exists writes an empty results.json only when there is
\* none, so the records of an earlier run are kept
ExistingStores == {<<>>, <<EarlierRecord>>}

\* lines 33-36 when the write raises: open(..., 'w') of line 35 has emptied
\* the file before json.dump writes, so what is left does not parse and the
\* next _read_data (lines 27-31) answers {"extractions": []}
write_raises(data) == <<>>

\* lines 82-84: data["extractions"] after clear_all
clear_all(data) == <<>>

\* lines 70-73
get_all_extractions(data) == data

\* lines 60-68: the first record with that id, or None
get_extraction(data, extraction_id) ==
    IF \E i \in 1..Len(data) : data[i].extraction_id = extraction_id
    THEN data[CHOOSE i \in 1..Len(data) :
                /\ data[i].extraction_id = extraction_id
                /\ \A j \in 1..(i - 1) : data[j].extraction_id # extraction_id]
    ELSE None

(***************************************************************************)
(* Bounds and inputs of the job model                                      *)
(***************************************************************************)
\* the task identifiers uuid4 hands out in a run, in this order
TaskIds == {1, 2}

\* images read in a run, over all documents and uploaded images
MaxImages == 2

\* exceptions raised by external calls in a run
MaxFaults == 1

\* seconds that pass in a run
MaxClock == 1

\* an image the classifier takes for no chart (150 colours, no edges)
PlainImage == MkImage(5, 5, 150, 0, 0)

\* an image the classifier takes for a table (edges on every pixel pair)
ChartImage == MkImage(5, 5, 150, 20, 20)

JobImages == {PlainImage, ChartImage}

\* what the object detector reports on an image of a job
JobDetections == << [label |-> "tv", confidence |-> 9, bbox |-> <<0, 0, 4, 4>>] >>

\* a line of OCR output around the point <<x, y>>
OcrLine(t, x, y) ==
    [bbox |-> <<<<x - 1, y - 1>>, <<x + 1, y - 1>>, <<x + 1, y + 1>>, <<x - 1, y + 1>>>>,
     text |-> t, confidence |-> 9]

\* the engine's output on a chart of a job: a title and two values
JobOcrLines ==
    << OcrLine(<<"S", "a", "l", "e", "s">>, 50, 0),
       OcrLine(<<"1", "0">>, 20, 50),
       OcrLine(<<"2", "0">>, 80, 100) >>

\* the generative model's response on a chart of a job
JobLlmText ==
    <<"T", "r", "e", "n", "d", ":", " ", "u", "p", "\n",
      "S", "u", "m", "m", "a", "r", "y", ":", " ", "o", "k">>

\* the page of the i-th image of a document: page 1 holds text only, every
\* later page one image
PageOf(i) == i + 1

\* lines 71-81 of pdf_extractor.py: the entry of the i-th image
ImgInfo(i, img) ==
    LET image_id == <<"img", PageOf(i), 1>>
    IN  [image_id |-> image_id, image_path |-> <<"images", image_id>>,
         page_number |-> PageOf(i), image |-> img]

\* extract_pdf's result for a document holding the images imgs
Document(imgs) ==
    [total_pages |-> PageOf(Len(imgs)),
     text |-> <<"--- Page 1 ---\n", "text">>,
     images |-> [i \in 1..Len(imgs) |-> ImgInfo(i, imgs[i])]]

\* the documents holding at most n images
Documents(n) ==
    UNION { {Document(imgs) : imgs \in [1..k -> JobImages]} : k \in 0..n }

(***************************************************************************)
(* The status map and the history of a task                                *)
(***************************************************************************)
Tasks == DOMAIN processing_status

\* the history of task t after progress value p was written to its entry
LogProgress(h, t, p) == [h EXCEPT ![t].progress = Append(@, p)]

\* the history of task t after the invocations events, in order
Invoked(h, t, events) == [h EXCEPT ![t].calls = @ \o events]

\* the history of task t once its input regions are known
Extracted(h, t, images) == [h EXCEPT ![t].regions = images]

\* the history of task t after detect_chart returned detection
Judged(h, t, detection) == [h EXCEPT ![t].verdicts = Append(@, detection)]

\* how a capability was when a stage invoked it: unset at construction,
\* raising on this invocation, or answering
CapabilityUse(loaded, outcome) ==
    IF ~loaded THEN "absent" ELSE IF outcome.raises THEN "raising" ELSE "present"

Used(h, t, capability, loaded, outcome) ==
    [h EXCEPT ![t].uses = Append(@, <<capability, CapabilityUse(loaded, outcome)>>)]

\* the history of a task at submission
NewHistory ==
    [progress |-> <<0>>, calls |-> <<>>, regions |-> <<>>, verdicts |-> <<>>,
     uses |-> <<>>]

\* an except clause that reports no more than that there was an error
FailedStatus_generic(e) ==
    [status |-> "failed", message |-> <<"Error: ">>, progress |-> 0,
     result |-> None]

\* an except clause that writes the error without ending the task
FailedStatus_processing(e) ==
    [status |-> "processing", message |-> <<"Error: ">> \o e, progress |-> 0,
     result |-> None]

\* lines 181-187 (pdf) and 179-185 (image): the except clause
FailedStatus(e) ==
    [status |-> "failed", message |-> <<"Error: ">> \o e, progress |-> 0,
     result |-> None]

\* a completion that leaves the progress of the save stage in place
CompletedStatus_unfinished(result, saved_id) ==
    [status |-> "completed", message |-> <<"Processing complete">>,
     progress |-> 95, result |-> result, extraction_id |-> saved_id]

\* lines 173-179 (pdf) and 171-177 (image)
CompletedStatus(result, saved_id) ==
    [status |-> "completed", message |-> <<"Processing complete">>,
     progress |-> 100, result |-> result, extraction_id |-> saved_id]

\* a background function that is queued again when it returns
Returned_requeued(kind) ==
    [kind |-> kind, pc |-> "queued", filename |-> [stem |-> <<>>, suffix |-> <<>>]]

\* the locals left when the background function has returned
Returned(kind) == [kind |-> kind, pc |-> "done"]

(***************************************************************************)
(* What the routers build from the services' results                       *)
(***************************************************************************)
\* OCRData(...).model_dump(): pdf_router.py lines 117-123, image_router.py 112-118
OCRData(ocr_result) ==
    LET st == ocr_result.structured
    IN  [title |-> st.title, x_axis |-> st.x_axis, y_axis |-> st.y_axis,
         values |-> [i \in 1..Len(st.values) |-> [value |-> st.values[i]]],
         legends |-> st.legends]

\* InferenceResult(...).model_dump(): pdf_router.py lines 125-132, image_router.py 120-127
InferenceResult(inference) ==
    [trend |-> inference.trend, max_point |-> inference.max_point,
     min_point |-> inference.min_point, correlations |-> inference.correlations,
     anomalies |-> inference.anomalies, summary |-> inference.summary]

\* ImageExtraction(...) of a chart: pdf_router.py lines 134-141, image_router.py 129-137
ChartExtraction(image_id, image_path, page_number, detection, ocr_result, inference) ==
    [image_id |-> image_id, image_path |-> image_path,
     type |-> detection.chart_type, page_number |-> page_number,
     ocr_data |-> OCRData(ocr_result), inference |-> InferenceResult(inference)]

\* a regular image stored with the OCR result of an empty chart
PlainExtraction_withOcr(image_id, image_path, page_number) ==
    [image_id |-> image_id, image_path |-> image_path, type |-> "image",
     page_number |-> page_number, ocr_data |-> OCRData(_empty_result), inference |-> None]

\* ImageExtraction(...) of a regular image: pdf_router.py lines 144-151,
\* image_router.py 145-153
PlainExtraction(image_id, image_path, page_number) ==
    [image_id |-> image_id, image_path |-> image_path, type |-> "image",
     page_number |-> page_number, ocr_data |-> None, inference |-> None]

\* PDFExtractionResult(...).model_dump(): pdf_router.py lines 158-164,
\* image_router.py 156-162
PDFExtractionResult(pdf_name, processed_at, total_pages, extracted_text, extractions) ==
    [pdf_name |-> pdf_name, processed_at |-> processed_at,
     total_pages |-> total_pages, extracted_text |-> extracted_text,
     extractions |-> extractions]

\* progress counting the images still to be analysed
LoopProgress_remaining(idx, total_images) ==
    30 + ((total_images - idx) * 60) \div total_images

\* pdf_router.py line 154: 30 + int((idx + 1) / total_images * 60)
LoopProgress(idx, total_images) == 30 + ((idx + 1) * 60) \div total_images

(***************************************************************************)
(* External calls of a job                                                 *)
(***************************************************************************)
CanFault == used.faults < MaxFaults

\* images the run may still read: an uploaded image counts from its upload
ImagesLeft == MaxImages - used.images

\* a reading of datetime.now() after the reading last: time may have passed
ReadingsAfter(last) == {c \in {last, last + 1} : c <= MaxClock}

\* a reading of datetime.now(): time may have passed since the last one
Readings == ReadingsAfter(clock)

\* invoking the object detector on an image of a job
JobYoloOutcomes ==
    IF ~caps.yolo THEN {YoloRaises}
    ELSE {YoloReturns(JobDetections)} \cup {YoloRaises}

\* invoking the OCR engine on a chart of a job
JobOcrOutcomes ==
    IF ~caps.ocr THEN {OcrRaises}
    ELSE {OcrReturns(JobOcrLines)} \cup {OcrRaises}

\* invoking the generative model on a chart of a job
JobLlmOutcomes ==
    IF ~caps.llm THEN {LlmRaises}
    ELSE {LlmReturns(JobLlmText)} \cup {LlmRaises}

(***************************************************************************)
(* Uploads.  The handlers create the status entry and queue the background *)
(* function.  A background function is an async def without any await, so  *)
(* once started it runs to its end before the event loop runs another      *)
(* handler or another background function: running holds its task.         *)
(***************************************************************************)
\* uuid.uuid4().hex: an identifier not used before
FreshTaskId == CHOOSE i \in TaskIds \ Tasks : \A j \in TaskIds \ Tasks : i <= j

\* config.py line 29
ALLOWED_EXTENSIONS ==
    {<<".", "p", "d", "f">>, <<".", "p", "n", "g">>, <<".", "j", "p", "g">>,
     <<".", "j", "p", "e", "g">>, <<".", "g", "i", "f">>, <<".", "b", "m", "p">>}

\* a file name is its stem and its suffix (Path(name).suffix, "" when none)
FileName(stem, suffix) == [stem |-> stem, suffix |-> suffix]

\* file_utils.py lines 19-22
is_allowed_file(filename) == Lower(filename.suffix) \in ALLOWED_EXTENSIONS

\* image_router.py lines 47-48
IsImageFile(filename) ==
    Lower(filename.suffix) \in
        {<<".", "p", "n", "g">>, <<".", "j", "p", "g">>, <<".", "j", "p", "e", "g">>,
         <<".", "g", "i", "f">>, <<".", "b", "m", "p">>}

\* if not file.filename
NoFileName(filename) == filename.stem = <<>> /\ filename.suffix = <<>>

\* the names uploaded in the job model
PdfNames == {FileName(<<"r">>, <<".", "p", "d", "f">>)}

ImageNames == {FileName(<<"c">>, <<".", "p", "n", "g">>)}

\* raise HTTPException(status_code=400, detail=...)
HTTPException(status_code, detail) == [status_code |-> status_code, detail |-> detail]

\* pdf_router.py lines 45-49: the exception the handler raises for this
\* name, or None when it goes on
upload_pdf_refusal(filename) ==
    IF NoFileName(filename) THEN HTTPException(400, <<"No file provided">>)
    ELSE IF ~is_allowed_file(filename)
    THEN HTTPException(400, <<"Only PDF files are allowed">>)
    ELSE None

\* pdf_router.py lines 50-71: the status entry is created and process_pdf
\* is handed to the background tasks
upload_pdf_accepted(filename) ==
    /\ running = 0
    /\ TaskIds \ Tasks # {}
    /\ LET task_id == FreshTaskId
       IN  /\ processing_status' = processing_status @@
                (task_id :> [status |-> "processing",
                             message |-> <<"PDF uploaded, starting extraction...">>,
                             progress |-> 0, result |-> None])
           /\ job' = job @@ (task_id :> [kind |-> "pdf", pc |-> "queued",
                                         filename |-> filename])
           /\ hist' = hist @@ (task_id :> NewHistory)
    /\ UNCHANGED <<caps, running, storage, clock, used>>

\* pdf_router.py line 73: the response of an accepted upload
upload_pdf_response(task_id) ==
    [task_id |-> task_id,
     message |-> <<"PDF uploaded successfully, processing started">>]

\* pdf_router.py lines 35-73, for a name the handler goes on with; the
\* handler runs while no background function holds the event loop and an
\* identifier is left for the task
upload_pdf(filename) ==
    /\ running = 0
    /\ TaskIds \ Tasks # {}
    /\ upload_pdf_refusal(filename) = None
    /\ upload_pdf_accepted(filename)
    /\ UNCHANGED probe

\* image_router.py lines 34-74
upload_image(filename) ==
    /\ running = 0
    /\ TaskIds \ Tasks # {}
    /\ ~NoFileName(filename)
    /\ IsImageFile(filename)
    /\ ImagesLeft > 0
    /\ used' = [used EXCEPT !.images = @ + 1]
    /\ LET task_id == FreshTaskId
       IN  /\ processing_status' = processing_status @@
                (task_id :> [status |-> "processing",
                             message |-> <<"Image uploaded, starting analysis...">>,
                             progress |-> 0, result |-> None])
           /\ job' = job @@ (task_id :> [kind |-> "image", pc |-> "queued",
                                         filename |-> filename])
           /\ hist' = hist @@ (task_id :> NewHistory)
    /\ UNCHANGED <<caps, running, storage, clock, probe>>

\* an except clause that marks every task of the mapping failed
Caught_everyTask(t, h, e, data) ==
    /\ processing_status' = [u \in Tasks |-> FailedStatus(e)]
    /\ hist' = LogProgress(Invoked(h, t, <<<<"raise", e>>>>), t, 0)
    /\ job' = [job EXCEPT ![t] = Returned(job[t].kind)]
    /\ running' = 0
    /\ storage' = data
    /\ UNCHANGED <<caps, clock, probe>>

\* the except clause of process_pdf / process_image: the exception e, raised
\* after the calls of history h and with the records data left in
\* results.json, ends the background function of task t
Caught(t, h, e, data) ==
    /\ processing_status' = [processing_status EXCEPT ![t] = FailedStatus(e)]
    /\ hist' = LogProgress(Invoked(h, t, <<<<"raise", e>>>>), t, 0)
    /\ job' = [job EXCEPT ![t] = Returned(job[t].kind)]
    /\ running' = 0
    /\ storage' = data
    /\ UNCHANGED <<caps, clock, probe>>

\* an unhandled fault e in the call stage
Fail(t, stage, e) ==
    /\ CanFault
    /\ used' = [used EXCEPT !.faults = @ + 1]
    /\ Caught(t, Invoked(hist, t, <<stage>>), e, storage)

\* save_result raises while it writes (json_storage.py line 56) and not, as
\* in Fail, while it reads (line 48): the records of results.json are lost
WriteFails(t, e) ==
    /\ CanFault
    /\ used' = [used EXCEPT !.faults = @ + 1]
    /\ Caught(t, Invoked(hist, t, <<<<"save">>>>), e, write_raises(storage))

\* ocr_service.py lines 195-198 on the charts of the jobs: the results of
\* the one OCRService, by whether its engine is set and by what the
\* invocation of the engine does
JobOcrResults ==
    [ocr_loaded \in BOOLEAN |->
        [engine \in {OcrRaises, OcrReturns(JobOcrLines)} |->
            extract_text(ocr_loaded, engine)]]

extract_chart_text(ocr_loaded, engine) == JobOcrResults[ocr_loaded][engine]

\* the chart types of a verdict, and the contexts the jobs pass
JobChartTypes == {"chart", "graph", "table"}

JobContexts == {Document(<<>>).text, <<>>}

\* inference_service.py lines 186-194 on the charts of the jobs: the results
\* of the one InferenceService, by whether its model is set, by what the
\* invocation of the model does, and by the arguments of the call
JobInferences ==
    [llm_loaded \in BOOLEAN |->
        [llm \in {LlmRaises, LlmReturns(JobLlmText)} |->
            [chart_type \in JobChartTypes |->
                [ocr_data \in {JobOcrResults[l][e] : l \in BOOLEAN,
                                  e \in {OcrRaises, OcrReturns(JobOcrLines)}} |->
                    [pdf_context \in JobContexts |->
                        generate_inference(llm_loaded, llm, chart_type, ocr_data,
                                           pdf_context)]]]]]

generate_chart_inference(llm_loaded, llm, chart_type, ocr_data, pdf_context) ==
    JobInferences[llm_loaded][llm][chart_type][ocr_data][pdf_context]

\* the exceptions of the three capabilities
YoloError == <<"YOLO inference error">>

OcrError == <<"PaddleOCR error">>

LlmError == <<"Gemini API error">>

(***************************************************************************)
(* process_pdf (pdf_router.py lines 76-187), one action per external call  *)
(***************************************************************************)
Locals(t) == job[t]

\* a loop that goes on to the OCR of the next image without detecting it
AfterImage_undetected(idx, total_images) ==
    IF idx + 1 < total_images THEN "ocr" ELSE "build"

\* a loop that leaves out the last image of a document
AfterImage_skipLast(idx, total_images) ==
    IF idx + 2 < total_images THEN "detect" ELSE "build"

\* where the loop over the images goes after the image at index idx
AfterImage(idx, total_images) == IF idx + 1 < total_images THEN "detect" ELSE "build"

\* lines 80-81: the function starts
PdfStart(t) ==
    /\ running = 0
    /\ Locals(t).kind = "pdf" /\ Locals(t).pc = "queued"
    /\ running' = t
    /\ processing_status' = [processing_status EXCEPT
            ![t].message = <<"Extracting text and images from PDF...">>,
            ![t].progress = 10]
    /\ hist' = LogProgress(hist, t, 10)
    /\ job' = [job EXCEPT ![t].pc = "extract"]
    /\ UNCHANGED <<caps, storage, clock, used, probe>>

\* lines 83-90: extract_pdf raises, or returns the document's content
PdfExtract(t) ==
    /\ running = t
    /\ Locals(t).kind = "pdf" /\ Locals(t).pc = "extract"
    /\ \/ Fail(t, <<"extract_pdf">>, <<"cannot open broken document">>)
       \/ \E extraction \in Documents(ImagesLeft) :
            LET total_images == Len(extraction.images)
            IN  /\ used' = [used EXCEPT !.images = @ + total_images]
                /\ processing_status' = [processing_status EXCEPT
                        ![t].progress = 30,
                        ![t].message = <<"Found ">> \o DecStr(total_images)
                                       \o <<" images, analyzing...">>]
                /\ hist' = LogProgress(Extracted(Invoked(hist, t, <<<<"extract_pdf">>>>),
                                                  t, extraction.images), t, 30)
                /\ job' = [job EXCEPT ![t] =
                        [kind |-> "pdf",
                         pc |-> IF total_images = 0 THEN "build" ELSE "detect",
                         filename |-> Locals(t).filename,
                         extraction |-> extraction,
                         image_extractions |-> <<>>,
                         idx |-> 0]]
                /\ UNCHANGED <<caps, running, storage, clock, probe>>

\* lines 92-98 and 142-155: detect_chart on the image at idx; a regular image
\* is stored at once
PdfDetect(t) ==
    /\ running = t
    /\ Locals(t).kind = "pdf" /\ Locals(t).pc = "detect"
    /\ \/ Fail(t, <<"detect", Locals(t).idx>>, <<"detection failed">>)
       \/ /\ LET loc == Locals(t)
                 idx == loc.idx
                 total_images == Len(loc.extraction.images)
                 img_info == loc.extraction.images[idx + 1]
             IN  \E yolo \in JobYoloOutcomes :
                   LET detection == detect(caps.yolo, yolo, img_info.image)
                       called == Used(Invoked(hist, t, <<<<"detect", idx>>>>), t,
                                      "yolo", caps.yolo, yolo)
                       judged == Judged(called, t, detection)
                   IN  /\ used' = used
                       /\ IF detect_raises(caps.yolo, yolo)
                          THEN Caught(t, called, YoloError, storage)
                          ELSE
                          /\ IF detection.is_chart
                             THEN /\ processing_status' = [processing_status EXCEPT
                                         ![t].message = <<"Analyzing chart ">>
                                             \o DecStr(idx + 1) \o <<"/">>
                                             \o DecStr(total_images) \o <<"...">>]
                                  /\ hist' = judged
                                  /\ job' = [job EXCEPT ![t] =
                                         [loc EXCEPT !.pc = "ocr"]
                                         @@ [detection |-> detection]]
                             ELSE /\ processing_status' = [processing_status EXCEPT
                                         ![t].progress = LoopProgress(idx, total_images)]
                                  /\ hist' = LogProgress(judged, t,
                                                         LoopProgress(idx, total_images))
                                  /\ job' = [job EXCEPT ![t] =
                                         [loc EXCEPT
                                            !.image_extractions =
                                                Append(@, PlainExtraction(img_info.image_id,
                                                                          img_info.image_path,
                                                                          img_info.page_number)),
                                            !.idx = idx + 1,
                                            !.pc = AfterImage(idx, total_images)]]
                          /\ UNCHANGED <<caps, running, storage, clock, probe>>

\* line 102: extract_chart_text
PdfOcr(t) ==
    /\ running = t
    /\ Locals(t).kind = "pdf" /\ Locals(t).pc = "ocr"
    /\ \/ Fail(t, <<"ocr", Locals(t).idx>>, <<"text extraction failed">>)
       \/ \E engine \in JobOcrOutcomes :
            LET called == Used(Invoked(hist, t, <<<<"ocr", Locals(t).idx>>>>), t,
                               "ocr", caps.ocr, engine)
            IN  /\ used' = used
                /\ IF extract_text_raises(caps.ocr, engine)
                   THEN Caught(t, called, OcrError, storage)
                   ELSE /\ job' = [job EXCEPT ![t] =
                               [Locals(t) EXCEPT !.pc = "infer"]
                               @@ [ocr_result |-> extract_chart_text(caps.ocr, engine)]]
                        /\ hist' = called
                        /\ UNCHANGED <<caps, processing_status, running, storage,
                                       clock, probe>>

\* lines 105-141 and 154-155: generate_chart_inference, then the extraction
\* of the chart is stored
PdfInfer(t) ==
    /\ running = t
    /\ Locals(t).kind = "pdf" /\ Locals(t).pc = "infer"
    /\ \/ Fail(t, <<"infer", Locals(t).idx>>, <<"inference failed">>)
       \/ /\ LET loc == Locals(t)
                 idx == loc.idx
                 total_images == Len(loc.extraction.images)
                 img_info == loc.extraction.images[idx + 1]
                 page_num == img_info.page_number
                 context == loc.extraction.text
             IN  \E llm \in JobLlmOutcomes :
                   LET inference == generate_chart_inference(caps.llm, llm,
                                                             loc.detection.chart_type,
                                                             loc.ocr_result, context)
                       called == Used(Invoked(hist, t, <<<<"infer", idx>>>>), t,
                                      "llm", caps.llm, llm)
                   IN  /\ used' = used
                       /\ IF generate_inference_raises(caps.llm, llm)
                          THEN Caught(t, called, LlmError, storage)
                          ELSE
                          /\ job' = [job EXCEPT ![t] =
                                 [kind |-> "pdf",
                                  pc |-> AfterImage(idx, total_images),
                                  filename |-> loc.filename,
                                  extraction |-> loc.extraction,
                                  image_extractions |->
                                      Append(loc.image_extractions,
                                             ChartExtraction(img_info.image_id,
                                                             img_info.image_path,
                                                             page_num, loc.detection,
                                                             loc.ocr_result, inference)),
                                  idx |-> idx + 1]]
                          /\ processing_status' = [processing_status EXCEPT
                                 ![t].progress = LoopProgress(idx, total_images)]
                          /\ hist' = LogProgress(called, t,
                                                 LoopProgress(idx, total_images))
                          /\ UNCHANGED <<caps, running, storage, clock, probe>>

\* lines 158-168: the result is assembled
PdfBuild(t) ==
    /\ running = t
    /\ Locals(t).kind = "pdf" /\ Locals(t).pc = "build"
    /\ \/ Fail(t, <<"build">>, <<"validation error for PDFExtractionResult">>)
       \/ \E now \in Readings :
          /\ clock' = now
          /\ job' = [job EXCEPT ![t] =
                      [kind |-> "pdf", pc |-> "save",
                       result |-> PDFExtractionResult(Locals(t).filename, now,
                                                      Locals(t).extraction.total_pages,
                                                      Locals(t).extraction.text,
                                                      Locals(t).image_extractions)]]
          /\ processing_status' = [processing_status EXCEPT
                  ![t].message = <<"Saving results...">>,
                  ![t].progress = 95]
          /\ hist' = LogProgress(hist, t, 95)
          /\ UNCHANGED <<caps, running, storage, used, probe>>

\* a save that is tried again after its first invocation raised
PdfSave_retried(t) ==
    /\ running = t
    /\ Locals(t).kind = "pdf" /\ Locals(t).pc = "save"
    /\ \E now \in Readings : \E later \in ReadingsAfter(now) :
          LET result == Locals(t).result
              saved_id == ExtractionId(now)
          IN  /\ clock' = later
              /\ storage' = save_extraction(storage, result, now, later)
              /\ processing_status' = [processing_status EXCEPT
                      ![t] = CompletedStatus(result, saved_id)]
              /\ hist' = LogProgress(Invoked(hist, t, <<<<"save">>, <<"save", saved_id>>>>),
                                     t, 100)
              /\ job' = [job EXCEPT ![t] = Returned("pdf")]
              /\ running' = 0
              /\ UNCHANGED <<caps, used, probe>>

\* lines 170-179: save_result raises, or the result is saved and the task completes
PdfSave(t) ==
    /\ running = t
    /\ Locals(t).kind = "pdf" /\ Locals(t).pc = "save"
    /\ \/ Fail(t, <<"save">>, <<"[Errno 5] Input/output error">>)
       \/ WriteFails(t, <<"[Errno 5] Input/output error">>)
       \/ \E now \in Readings : \E later \in ReadingsAfter(now) :
            LET result == Locals(t).result
                saved_id == ExtractionId(now)
            IN  /\ clock' = later
                /\ storage' = save_extraction(storage, result, now, later)
                /\ processing_status' = [processing_status EXCEPT
                        ![t] = CompletedStatus(result, saved_id)]
                /\ hist' = LogProgress(Invoked(hist, t, <<<<"save", saved_id>>>>), t, 100)
                /\ job' = [job EXCEPT ![t] = Returned("pdf")]
                /\ running' = 0
                /\ UNCHANGED <<caps, used, probe>>

\* inference_service.py lines 186-191: the parameters of generate_chart_inference
generate_chart_inference_params ==
    {"image_path", "chart_type", "ocr_data", "pdf_context"}

\* image_router.py lines 104-109: the keywords of the call in process_image
\* (the call of pdf_router.py lines 109-114 passes its arguments by position)
ImageCallKeywords == {"context"}

\* a call binds when every keyword it passes names a parameter
Binds(keywords) == keywords \subseteq generate_chart_inference_params

\* str() of the TypeError of a call that passes the keyword k
UnexpectedKeyword(k) ==
    <<"generate_chart_inference() got an unexpected keyword argument '", k, "'">>

(***************************************************************************)
(* process_image (image_router.py lines 77-185)                            *)
(***************************************************************************)
\* lines 80-85: the function starts; image_id is a fresh uuid
ImgStart(t) ==
    /\ running = 0
    /\ Locals(t).kind = "image" /\ Locals(t).pc = "queued"
    /\ running' = t
    /\ processing_status' = [processing_status EXCEPT
            ![t].message = <<"Analyzing image content...">>,
            ![t].progress = 20]
    /\ hist' = LogProgress(hist, t, 20)
    /\ job' = [job EXCEPT ![t] =
            [kind |-> "image", pc |-> "detect", filename |-> Locals(t).filename,
             image_id |-> <<"img", "upload", t>>]]
    /\ UNCHANGED <<caps, storage, clock, used, probe>>

\* lines 88-98 and 138-153: the upload is copied (shutil.copy2 may raise) and
\* classified; a regular image is stored at once
ImgDetect(t) ==
    /\ running = t
    /\ Locals(t).kind = "image" /\ Locals(t).pc = "detect"
    /\ \/ Fail(t, <<"copy2">>, <<"No space left on device">>)
       \/ \E img \in JobImages, yolo \in JobYoloOutcomes :
            LET loc == Locals(t)
                target_path == <<"images", loc.image_id>>
                detection == detect(caps.yolo, yolo, img)
                region == [image_id |-> loc.image_id, image_path |-> target_path,
                           page_number |-> 1, image |-> img]
                called == Used(Extracted(Invoked(hist, t, <<<<"detect", 0>>>>),
                                         t, <<region>>), t, "yolo", caps.yolo, yolo)
                judged == Judged(called, t, detection)
            IN  /\ used' = used
                /\ IF detect_raises(caps.yolo, yolo)
                   THEN Caught(t, called, YoloError, storage)
                   ELSE
                   /\ hist' = IF detection.is_chart
                              THEN LogProgress(judged, t, 50)
                              ELSE judged
                   /\ IF detection.is_chart
                      THEN /\ processing_status' = [processing_status EXCEPT
                                  ![t].message =
                                      <<"Chart detected, running OCR and analysis...">>,
                                  ![t].progress = 50]
                           /\ job' = [job EXCEPT ![t] =
                                  [loc EXCEPT !.pc = "ocr"]
                                  @@ [target_path |-> target_path,
                                      detection |-> detection]]
                      ELSE /\ processing_status' = [processing_status EXCEPT
                                  ![t].message = <<"Processing as generic image...">>]
                           /\ job' = [job EXCEPT ![t] =
                                  [kind |-> "image", pc |-> "build",
                                   filename |-> loc.filename,
                                   image_extractions |->
                                       <<PlainExtraction(loc.image_id, target_path, 1)>>]]
                   /\ UNCHANGED <<caps, running, storage, clock, probe>>

\* line 101: extract_chart_text
ImgOcr(t) ==
    /\ running = t
    /\ Locals(t).kind = "image" /\ Locals(t).pc = "ocr"
    /\ \/ Fail(t, <<"ocr", 0>>, <<"text extraction failed">>)
       \/ \E engine \in JobOcrOutcomes :
            LET called == Used(Invoked(hist, t, <<<<"ocr", 0>>>>), t,
                               "ocr", caps.ocr, engine)
            IN  /\ used' = used
                /\ IF extract_text_raises(caps.ocr, engine)
                   THEN Caught(t, called, OcrError, storage)
                   ELSE /\ job' = [job EXCEPT ![t] =
                               [Locals(t) EXCEPT !.pc = "infer"]
                               @@ [ocr_result |-> extract_chart_text(caps.ocr, engine)]]
                        /\ hist' = called
                        /\ UNCHANGED <<caps, processing_status, running, storage,
                                       clock, probe>>

\* lines 104-137: generate_chart_inference is called with the keyword
\* context, which is none of its parameters: the call raises TypeError before
\* the service is entered. Were the keyword a parameter, the inference would
\* be generated without context and the extraction of the chart stored.
ImgInfer(t) ==
    /\ running = t
    /\ Locals(t).kind = "image" /\ Locals(t).pc = "infer"
    /\ IF ~Binds(ImageCallKeywords)
       THEN /\ used' = used
            /\ Caught(t, Invoked(hist, t, <<<<"infer", 0>>>>),
                      UnexpectedKeyword(CHOOSE k \in ImageCallKeywords :
                                           k \notin generate_chart_inference_params),
                      storage)
       ELSE LET loc == Locals(t)
            IN  \E llm \in JobLlmOutcomes :
                   LET inference == generate_chart_inference(caps.llm, llm,
                                                             loc.detection.chart_type,
                                                             loc.ocr_result, <<>>)
                       called == Used(Invoked(hist, t, <<<<"infer", 0>>>>), t,
                                      "llm", caps.llm, llm)
                   IN  /\ used' = used
                       /\ IF generate_inference_raises(caps.llm, llm)
                          THEN Caught(t, called, LlmError, storage)
                          ELSE
                          /\ job' = [job EXCEPT ![t] =
                                 [kind |-> "image", pc |-> "build",
                                  filename |-> loc.filename,
                                  image_extractions |->
                                      <<ChartExtraction(loc.image_id, loc.target_path, 1,
                                                        loc.detection, loc.ocr_result,
                                                        inference)>>]]
                          /\ hist' = called
                          /\ UNCHANGED <<caps, processing_status, running, storage,
                                         clock, probe>>

\* lines 156-166: the result is assembled
ImgBuild(t) ==
    /\ running = t
    /\ Locals(t).kind = "image" /\ Locals(t).pc = "build"
    /\ \/ Fail(t, <<"build">>, <<"validation error for PDFExtractionResult">>)
       \/ \E now \in Readings :
          /\ clock' = now
          /\ job' = [job EXCEPT ![t] =
                      [kind |-> "image", pc |-> "save",
                       result |-> PDFExtractionResult(Locals(t).filename, now, 1, <<>>,
                                                      Locals(t).image_extractions)]]
          /\ processing_status' = [processing_status EXCEPT
                  ![t].message = <<"Saving results...">>,
                  ![t].progress = 90]
          /\ hist' = LogProgress(hist, t, 90)
          /\ UNCHANGED <<caps, running, storage, used, probe>>

\* lines 168-177: save_result raises, or the result is saved and the task completes
ImgSave(t) ==
    /\ running = t
    /\ Locals(t).kind = "image" /\ Locals(t).pc = "save"
    /\ \/ Fail(t, <<"save">>, <<"[Errno 5] Input/output error">>)
       \/ WriteFails(t, <<"[Errno 5] Input/output error">>)
       \/ \E now \in Readings : \E later \in ReadingsAfter(now) :
            LET result == Locals(t).result
                saved_id == ExtractionId(now)
            IN  /\ clock' = later
                /\ storage' = save_extraction(storage, result, now, later)
                /\ processing_status' = [processing_status EXCEPT
                        ![t] = CompletedStatus(result, saved_id)]
                /\ hist' = LogProgress(Invoked(hist, t, <<<<"save", saved_id>>>>), t, 100)
                /\ job' = [job EXCEPT ![t] = Returned("image")]
                /\ running' = 0
                /\ UNCHANGED <<caps, used, probe>>

(***************************************************************************)
(* The job model: uploads and background functions                         *)
(***************************************************************************)
\* the services' models are loaded or not when the singletons are built
Capabilities == [yolo : BOOLEAN, ocr : BOOLEAN, llm : BOOLEAN]

\* no upload yet
NoTasks ==
    /\ processing_status = <<>>
    /\ job = <<>>
    /\ running = 0
    /\ clock = 0
    /\ used = [faults |-> 0, images |-> 0]
    /\ hist = <<>>

\* no upload yet, in a directory without a results.json
NoJobs == NoTasks /\ storage = <<>>

ProbeIdle == [phase |-> "idle"]

Init ==
    /\ caps \in Capabilities
    /\ NoTasks
    /\ storage \in ExistingStores
    /\ probe = ProbeIdle

UploadPdf == \E filename \in PdfNames : upload_pdf(filename)

UploadImage == \E filename \in ImageNames : upload_image(filename)

ProcessPdf ==
    \E t \in Tasks :
        \/ PdfStart(t)
        \/ PdfExtract(t)
        \/ PdfDetect(t)
        \/ PdfOcr(t)
        \/ PdfInfer(t)
        \/ PdfBuild(t)
        \/ PdfSave(t)

ProcessImage ==
    \E t \in Tasks :
        \/ ImgStart(t)
        \/ ImgDetect(t)
        \/ ImgOcr(t)
        \/ ImgInfer(t)
        \/ ImgBuild(t)
        \/ ImgSave(t)

Next == UploadPdf \/ UploadImage \/ ProcessPdf \/ ProcessImage

Spec == Init /\ [][Next]_vars

\* The event loop runs every background function it was given (Starlette
\* runs the BackgroundTasks of a response once the response is sent), and a
\* started function goes on while its calls return or raise: the steps of
\* the jobs are taken whenever they stay possible.
LiveSpec == Spec /\ WF_vars(ProcessPdf) /\ WF_vars(ProcessImage)

(***************************************************************************)
(* Claims about the jobs                                                   *)
(***************************************************************************)
\* the background function of task t has returned
Done(t) == job[t].pc = "done"

\* the names of the invocations made for task t, in order
Calls(t) == [i \in 1..Len(hist[t].calls) |-> hist[t].calls[i][1]]

\* a call made for task t raised an exception that reached the except clause
Faulted(t) == \E i \in DOMAIN hist[t].calls : hist[t].calls[i][1] = "raise"

\* the exceptions that reached the except clause of the job of task t
Surfaced(t) ==
    {hist[t].calls[i][2] : i \in {j \in DOMAIN hist[t].calls :
                                    hist[t].calls[j][1] = "raise"}}

\* every stage entered for task t returned: no exception reached the except
\* clause but that of a call which never entered its stage
StagesReturned(t) ==
    Surfaced(t) \subseteq {UnexpectedKeyword(k) : k \in ImageCallKeywords}

\* the status of task t is terminal
Terminal(t) == processing_status[t].status \in {"completed", "failed"}

\* the fields of PDFExtractionResult
ResultFields ==
    {"pdf_name", "processed_at", "total_pages", "extracted_text", "extractions"}

NonDecreasing(p) == \A i \in 1..(Len(p) - 1) : p[i] <= p[i + 1]

\* the job of task t had one region, and detect_chart took it for no chart
OneRegularRegion(t) ==
    /\ Len(hist[t].regions) = 1
    /\ Len(hist[t].verdicts) = 1
    /\ ~hist[t].verdicts[1].is_chart

\* C1, as stated: in a document job and in a single-image job alike, when
\* the function has returned and the stages it entered returned normally, the
\* task is completed, and every region that detect_chart classified as a
\* chart went through OCR and inference and has an extraction whose type is
\* the verdict's chart_type and whose ocr_data and inference are both set.
C1_ChartRegionsAnalysed ==
    \A t \in Tasks :
        (Done(t) /\ StagesReturned(t)) =>
            /\ processing_status[t].status = "completed"
            /\ Len(processing_status[t].result.extractions) = Len(hist[t].verdicts)
            /\ \A i \in 1..Len(hist[t].verdicts) :
                 LET verdict == hist[t].verdicts[i]
                     ex == processing_status[t].result.extractions[i]
                 IN  verdict.is_chart =>
                        /\ ex.type = verdict.chart_type
                        /\ ex.ocr_data # None
                        /\ DOMAIN ex.ocr_data =
                               {"title", "x_axis", "y_axis", "values", "legends"}
                        /\ ex.inference # None
                        /\ DOMAIN ex.inference =
                               {"trend", "max_point", "min_point", "correlations",
                                "anomalies", "summary"}
                        /\ \E j, k \in 1..Len(hist[t].calls) :
                               /\ j < k
                               /\ hist[t].calls[j] = <<"ocr", i - 1>>
                               /\ hist[t].calls[k] = <<"infer", i - 1>>

\* C2: a status entry is created in state processing, a processing entry
\* stays processing or becomes completed or failed, and no step changes the
\* state, progress, message or result of a completed or failed entry.
C2_StatusStateMachine ==
    [][\A t \in DOMAIN processing_status' :
          IF t \notin Tasks
          THEN processing_status'[t].status = "processing"
          ELSE IF Terminal(t)
          THEN processing_status'[t] = processing_status[t]
          ELSE processing_status'[t].status \in {"processing", "completed", "failed"}
      ]_vars

\* one task has completed and another has failed: whichever ended first was
\* terminal while the other was written
C2_Witness ==
    \E t, u \in Tasks :
        /\ processing_status[t].status = "completed"
        /\ processing_status[u].status = "failed"
        /\ Len(hist[t].progress) > 2
        /\ Len(hist[u].progress) > 2

\* C3, as stated: the progress values written to a task's entry, from the 0
\* at submission to the terminal write, never decrease.
C3_ProgressNeverDecreases ==
    \A t \in Tasks : NonDecreasing(hist[t].progress)

\* C3, amended: the progress values written to a task's entry start at 0 and
\* never decrease up to and including the write that completes the task; the
\* write that fails the task sets progress to 0.
C3_ProgressNonDecreasingUntilFailure ==
    \A t \in Tasks :
        LET p == hist[t].progress
        IN  /\ p[1] = 0
            /\ processing_status[t].progress = p[Len(p)]
            /\ IF processing_status[t].status = "failed"
               THEN /\ NonDecreasing(SubSeq(p, 1, Len(p) - 1))
                    /\ p[Len(p)] = 0
               ELSE NonDecreasing(p)

\* a document job failed after the analysis of its two images: 0, 10, 30,
\* 60, 90, 95, 0
C3_Witness ==
    \E t \in Tasks :
        /\ processing_status[t].status = "failed"
        /\ hist[t].progress = <<0, 10, 30, 60, 90, 95, 0>>

\* C4: a completed status record has progress 100, holds the assembled
\* result with one extraction per region, and holds the identifier that
\* the save_result call of the job returned; a processing or failed record
\* has no result.
C4_StatusRecordShape ==
    \A t \in Tasks :
        LET st == processing_status[t]
        IN  IF st.status = "completed"
            THEN /\ st.progress = 100
                 /\ DOMAIN st.result = ResultFields
                 /\ Len(st.result.extractions) = Len(hist[t].regions)
                 /\ \E i \in DOMAIN hist[t].calls :
                      hist[t].calls[i] = <<"save", st.extraction_id>>
            ELSE /\ st.status \in {"processing", "failed"}
                 /\ st.result = None

\* a task completed in second 1 with a chart in its result while another is
\* halfway through
C4_Witness ==
    \E t, u \in Tasks :
        /\ processing_status[t].status = "completed"
        /\ processing_status[t].extraction_id = ExtractionId(1)
        /\ Len(processing_status[t].result.extractions) = 1
        /\ processing_status[t].result.extractions[1].ocr_data # None
        /\ processing_status[u].status = "processing"
        /\ processing_status[u].progress >= 30

\* C5: when a call of any stage raises, the task's record is failed with
\* progress 0, no result and a message that contains the exception's text,
\* and the function has returned; a record is failed only for that reason.
C5_FaultsEndInFailed ==
    \A t \in Tasks :
        /\ Faulted(t) =>
              LET raised == hist[t].calls[Len(hist[t].calls)]
                  st == processing_status[t]
              IN  /\ raised[1] = "raise"
                  /\ st.status = "failed"
                  /\ st.progress = 0
                  /\ st.result = None
                  /\ Contains(st.message, raised[2])
                  /\ Done(t)
                  /\ running # t
        /\ processing_status[t].status = "failed" => Faulted(t)

\* a document job failed in the inference stage of its second image
C5_Witness ==
    \E t \in Tasks :
        /\ Faulted(t)
        /\ Len(hist[t].calls) > 2
        /\ hist[t].calls[Len(hist[t].calls) - 1] = <<"infer", 1>>
        /\ processing_status[t].message = <<"Error: ", "inference failed">>

\* C6: for a job whose single region is classified as no chart, OCR and
\* inference are never invoked, and when the function has returned and no
\* call raised the task is completed with progress 100 and a result of exactly
\* one extraction, of type image, with ocr_data and inference unset.
C6_RegularImageJob ==
    \A t \in Tasks :
        OneRegularRegion(t) =>
            /\ \A i \in DOMAIN Calls(t) : Calls(t)[i] \notin {"ocr", "infer"}
            /\ (Done(t) /\ ~Faulted(t)) =>
                  LET st == processing_status[t]
                  IN  /\ st.status = "completed"
                      /\ st.progress = 100
                      /\ Len(st.result.extractions) = 1
                      /\ st.result.extractions[1].type = "image"
                      /\ st.result.extractions[1].ocr_data = None
                      /\ st.result.extractions[1].inference = None

\* a document job and a single-image job have both completed on one regular
\* image
C6_Witness ==
    \E t, u \in Tasks :
        /\ job[t].kind = "pdf" /\ job[u].kind = "image"
        /\ OneRegularRegion(t) /\ OneRegularRegion(u)
        /\ processing_status[t].status = "completed"
        /\ processing_status[u].status = "completed"

\* C7: the result of a completed document job has one extraction per image
\* that extract_pdf returned, none for none, and the i-th extraction has the
\* image id and the page number of the i-th image.
C7_OneExtractionPerRegion ==
    \A t \in Tasks :
        (job[t].kind = "pdf" /\ processing_status[t].status = "completed") =>
            LET extractions == processing_status[t].result.extractions
                regions == hist[t].regions
            IN  /\ Len(extractions) = Len(regions)
                /\ \A i \in 1..Len(regions) :
                     /\ extractions[i].image_id = regions[i].image_id
                     /\ extractions[i].page_number = regions[i].page_number

\* a document of two images, on pages 2 and 3, and a document of none have
\* both completed
C7_Witness ==
    \E t, u \in Tasks :
        /\ job[t].kind = "pdf" /\ job[u].kind = "pdf"
        /\ processing_status[t].status = "completed"
        /\ processing_status[u].status = "completed"
        /\ Len(hist[t].regions) = 2
        /\ processing_status[t].result.extractions[2].page_number = 3
        /\ hist[u].regions = <<>>
        /\ processing_status[u].result.extractions = <<>>

CapabilityErrors == {YoloError, OcrError, LlmError}

\* C18: in a document job, whether each of the object detector, the OCR
\* engine and the generative model is present, absent or raising when it is
\* invoked, no exception of a capability reaches the except clause of the
\* job and none shows in the status; the job fails only on a fault of
\* another origin, and when its function has returned without one the task
\* is completed with one extraction per region.
C18_CapabilityFaultsAbsorbed ==
    \A t \in Tasks :
        job[t].kind = "pdf" =>
            LET c == hist[t].calls
            IN
            /\ \A i \in DOMAIN c :
                  c[i][1] = "raise" => c[i][2] \notin CapabilityErrors
            /\ \A e \in CapabilityErrors : ~Contains(processing_status[t].message, e)
            /\ processing_status[t].status = "failed" => Faulted(t)
            /\ (Done(t) /\ ~Faulted(t)) =>
                   /\ processing_status[t].status = "completed"
                   /\ processing_status[t].message = <<"Processing complete">>
                   /\ Len(processing_status[t].result.extractions)
                          = Len(hist[t].regions)

\* a document job completed on a chart for which the object detector was
\* absent, the OCR engine raised and the generative model answered
C18_Witness ==
    \E t \in Tasks :
        /\ job[t].kind = "pdf"
        /\ processing_status[t].status = "completed"
        /\ Len(hist[t].uses) >= 3
        /\ SubSeq(hist[t].uses, 1, 3) =
               <<<<"yolo", "absent">>, <<"ocr", "raising">>, <<"llm", "present">>>>
        /\ processing_status[t].result.extractions[1].inference # None

\* the positions of the invocations of save_result in the calls of task t
SaveCalls(t) == {i \in DOMAIN hist[t].calls : hist[t].calls[i][1] = "save"}

\* the invocations made for the regions of a job, and extract_pdf before them
RegionStages == {"extract_pdf", "detect", "ocr", "infer"}

\* C19: a job invokes save_result at most once, and only when the result
\* has been assembled from one extraction per region: every detection, OCR
\* and inference call of the job precedes it and what is saved holds as many
\* extractions as the job has regions. A job that faulted in an earlier
\* stage never invoked it, and a completed job invoked it exactly once.
C19_SaveOnceAfterAssembly ==
    \A t \in Tasks :
        LET c == hist[t].calls
            saves == SaveCalls(t)
        IN
        /\ Cardinality(saves) <= 1
        /\ \A i \in saves :
              LET before == {c[j] : j \in 1..(i - 1)}
              IN
              /\ \A j \in (i + 1)..Len(c) : c[j][1] \notin RegionStages
              /\ Len(hist[t].verdicts) = Len(hist[t].regions)
              /\ \A r \in 1..Len(hist[t].regions) :
                    /\ <<"detect", r - 1>> \in before
                    /\ hist[t].verdicts[r].is_chart =>
                           <<"infer", r - 1>> \in before
        /\ job[t].pc = "save" =>
              /\ saves = {}
              /\ Len(job[t].result.extractions) = Len(hist[t].regions)
        /\ processing_status[t].status = "completed" =>
              /\ Cardinality(saves) = 1
              /\ Len(processing_status[t].result.extractions) = Len(hist[t].regions)
        /\ (Faulted(t) /\ c[Len(c) - 1][1] # "save") => saves = {}

\* a document job has completed on a chart with its one save, and another
\* job faulted in the analysis of its chart without any save
C19_Witness ==
    \E t, u \in Tasks :
        /\ job[t].kind = "pdf"
        /\ processing_status[t].status = "completed"
        /\ Calls(t) = <<"extract_pdf", "detect", "ocr", "infer", "save">>
        /\ Faulted(u)
        /\ Len(Calls(u)) > 2
        /\ Calls(u)[Len(Calls(u)) - 1] \in {"ocr", "infer"}
        /\ SaveCalls(u) = {}

\* C20: the stage calls of a job follow one another in one order: the
\* detection of the first region comes first; the detection of a region
\* found to be a chart is followed by its OCR and that by its inference; the
\* detection of the next region follows the inference of a chart or the
\* detection of a region that is no chart. So no stage is invoked twice for
\* a region, regions are taken in input order, and OCR and inference are
\* invoked only for charts. A completed job has gone through every region
\* in this way.
C20_StagesSequential ==
    \A t \in Tasks :
        LET n == Len(hist[t].regions)
            judged(r) == r < Len(hist[t].verdicts)
            chart(r) == judged(r) /\ hist[t].verdicts[r + 1].is_chart
            \* the stage events in the order of their invocation
            s == SelectSeq(hist[t].calls,
                           LAMBDA e : e[1] \in {"detect", "ocr", "infer"})
            \* the event b may come right after the event a
            follows(a, b) ==
                CASE a[1] = "detect" ->
                        IF chart(a[2]) THEN b = <<"ocr", a[2]>>
                        ELSE judged(a[2]) /\ b = <<"detect", a[2] + 1>>
                  [] a[1] = "ocr" -> b = <<"infer", a[2]>>
                  [] a[1] = "infer" -> b = <<"detect", a[2] + 1>>
        IN  /\ s # <<>> => s[1] = <<"detect", 0>>
            /\ \A k \in 1..Len(s) : s[k][2] < n
            /\ \A k \in 1..(Len(s) - 1) : follows(s[k], s[k + 1])
            /\ processing_status[t].status = "completed" =>
                  /\ Len(hist[t].verdicts) = n
                  /\ IF n = 0 THEN s = <<>>
                     ELSE /\ s # <<>>
                          /\ s[Len(s)] = IF chart(n - 1) THEN <<"infer", n - 1>>
                                         ELSE <<"detect", n - 1>>

\* a document job completed on a chart followed by a regular image: the
\* chart was detected, read and analysed before the second image was
\* detected, and nothing more was invoked for the second
C20_Witness ==
    \E t \in Tasks :
        /\ job[t].kind = "pdf"
        /\ processing_status[t].status = "completed"
        /\ hist[t].calls = <<<<"extract_pdf">>, <<"detect", 0>>, <<"ocr", 0>>,
                             <<"infer", 0>>, <<"detect", 1>>,
                             <<"save", processing_status[t].extraction_id>>>>

\* C21: whatever the calls of the jobs return or raise, again and again
\* every task submitted so far has a terminal status, completed or failed
\* (no entry is ever removed, so each submitted task reaches one); and at no
\* time has the background function of a task returned while the status of
\* the task is still processing.
C21_EveryJobTerminates ==
    /\ []<>(\A t \in Tasks : Terminal(t))
    /\ [](\A t \in Tasks : Done(t) => Terminal(t))

\* a document job has completed after a capability raised, a second job
\* has failed on an unhandled fault, and no function is running
C21_Witness ==
    \E t, u \in Tasks :
        /\ running = 0
        /\ Done(t) /\ Done(u)
        /\ processing_status[t].status = "completed"
        /\ \E i \in DOMAIN hist[t].uses : hist[t].uses[i][2] = "raising"
        /\ processing_status[u].status = "failed"

\* C24: no step removes an entry of the status mapping, and a step changes
\* the entry of a task only when it is a step of the background function of
\* that very task: the entries of all other tasks are as they were.
C24_JobWritesOwnEntryOnly ==
    [][/\ Tasks \subseteq DOMAIN processing_status'
       /\ \A u \in Tasks :
             processing_status'[u] # processing_status[u] =>
                 (running = u \/ running' = u)]_vars

\* both tasks were submitted before either started; one has run to its
\* completion through all its writes while the entry of the other is still
\* the one its upload created
C24_Witness ==
    \E t, u \in Tasks :
        /\ t # u
        /\ processing_status[t].status = "completed"
        /\ Len(hist[t].progress) >= 5
        /\ Locals(u).pc = "queued"
        /\ hist[u].progress = <<0>>
        /\ processing_status[u].status = "processing"
        /\ processing_status[u].progress = 0

(***************************************************************************)
(* Inputs of the detector study                                            *)
(***************************************************************************)
\* width and height of the studied images: the ratios 0.5, 2.5, 0.3 and 3.0
\* themselves, and ratios on either side of each
ProbeDims == {<<2, 4>>, <<5, 2>>, <<3, 10>>, <<6, 2>>, <<5, 5>>, <<2, 9>>,
              <<7, 2>>, <<2, 5>>, <<14, 5>>}

\* distinct-colour counts around the thresholds 50 and 100
ProbeColors == {1, 40, 49, 50, 99, 100, 150}

\* edge counts out of size: none, the largest with density <= 0.05, the
\* smallest with density > 0.05, all
ProbeEdges(size) == {0, size \div 20, (size \div 20) + 1, size}

ProbeImages ==
    {UndecodableImage} \cup
    UNION { UNION { { MkImage(d[1], d[2], c, he, ve) :
                        he \in ProbeEdges((d[2] - 1) * d[1]),
                        ve \in ProbeEdges(d[2] * (d[1] - 1)) } :
                    c \in ProbeColors } :
            d \in ProbeDims }

\* what the object detector reports: nothing, or boxes with labels
ProbeDetections ==
    { <<>>,
      << [label |-> "tv", confidence |-> 9, bbox |-> <<0, 0, 4, 4>>] >>,
      << [label |-> "book", confidence |-> 4, bbox |-> <<1, 1, 2, 2>>],
         [label |-> "person", confidence |-> 8, bbox |-> <<0, 0, 1, 3>>] >> }

YoloOutcomes == {YoloRaises} \cup {YoloReturns(d) : d \in ProbeDetections}

\* the detector's state and, when the model is loaded, what invoking it does
DetectorRuns ==
    {[model_loaded |-> FALSE, yolo |-> YoloRaises]} \cup
    {[model_loaded |-> TRUE, yolo |-> y] : y \in YoloOutcomes}

NoOut == [none |-> TRUE]

(***************************************************************************)
(* The detector study: one image, classified by the geometric classifier   *)
(* and then by ChartDetector.detect.                                       *)
(***************************************************************************)
DetectInit ==
    /\ caps = [yolo |-> FALSE, ocr |-> FALSE, llm |-> FALSE]
    /\ NoJobs
    /\ probe \in { [phase |-> "input", img |-> i, run |-> r, geo |-> NoOut,
                 out |-> NoOut] : i \in ProbeImages, r \in DetectorRuns }

ProbeAnalyze ==
    /\ probe.phase = "input"
    /\ probe' = [probe EXCEPT !.phase = "analyzed",
                              !.geo = _analyze_chart_characteristics(probe.img)]
    /\ UNCHANGED jobvars

ProbeDetect ==
    /\ probe.phase = "analyzed"
    /\ probe' = [probe EXCEPT !.phase = "detected",
                              !.out = detect(probe.run.model_loaded,
                                             probe.run.yolo, probe.img)]
    /\ UNCHANGED jobvars

DetectNext == ProbeAnalyze \/ ProbeDetect

DetectSpec == DetectInit /\ [][DetectNext]_vars

(***************************************************************************)
(* Claims about the detector                                               *)
(***************************************************************************)
\* both edge densities of the studied image exceed 0.05 (count / size > 1/20)
ProbeBothEdgesHigh ==
    /\ 20 * probe.img.h_edges > (probe.img.height - 1) * probe.img.width
    /\ 20 * probe.img.v_edges > probe.img.height * (probe.img.width - 1)

ProbeClassified == probe.phase \in {"analyzed", "detected"} /\ probe.img.decodable

\* C8: for the same image, the is_chart, chart_type and confidence that detect
\* returns are those of the geometric classifier, whether the object detector
\* is absent, raises, or returns any detections.
C8_DetectFollowsGeometric ==
    probe.phase = "detected" =>
        /\ probe.out.is_chart = probe.geo.is_chart
        /\ probe.out.chart_type = probe.geo.chart_type
        /\ probe.out.confidence = probe.geo.confidence

\* the object detector raised on an image the classifier takes for a table
C8_Witness ==
    /\ probe.phase = "detected"
    /\ probe.run.model_loaded
    /\ probe.run.yolo.raises
    /\ probe.geo.chart_type = "table"
    /\ probe.out.chart_type = "table"

\* C9: whenever both edge densities exceed 0.05 the classifier answers
\* is_chart, type table, confidence 0.7, for every colour count and aspect ratio.
C9_TableOverrides ==
    (ProbeClassified /\ ProbeBothEdgesHigh) =>
        /\ probe.geo.is_chart
        /\ probe.geo.chart_type = "table"
        /\ probe.geo.confidence = 7

\* 40 colours at aspect ratio 1.0, which rule 2 alone would call a chart
C9_Witness ==
    /\ ProbeClassified /\ ProbeBothEdgesHigh
    /\ probe.img.unique_colors = 40
    /\ probe.img.width = probe.img.height
    /\ probe.geo.chart_type = "table"

\* C10: when the edge densities are not both above 0.05 the verdict is
\* chart/0.6 for colours < 50 and 0.5 < aspect < 2.5, else graph/0.5 for
\* colours < 100 and 0.3 < aspect < 3.0, else not a chart, image/0.3; all
\* bounds strict.
C10_ColorAspectRules ==
    (ProbeClassified /\ ~ProbeBothEdgesHigh) =>
        LET c == probe.img.unique_colors
            w == probe.img.width
            h == probe.img.height
        IN  IF c < 50 /\ 2 * w > h /\ 2 * w < 5 * h
            THEN probe.geo = [is_chart |-> TRUE, chart_type |-> "chart",
                              confidence |-> 6]
            ELSE IF c < 100 /\ 10 * w > 3 * h /\ w < 3 * h
            THEN probe.geo = [is_chart |-> TRUE, chart_type |-> "graph",
                              confidence |-> 5]
            ELSE probe.geo = [is_chart |-> FALSE, chart_type |-> "image",
                              confidence |-> 3]

\* 40 colours at aspect ratio exactly 0.5 is a graph, not a chart
C10_Witness ==
    /\ ProbeClassified /\ ~ProbeBothEdgesHigh
    /\ probe.img.unique_colors = 40
    /\ 2 * probe.img.width = probe.img.height
    /\ probe.geo.chart_type = "graph"
    /\ probe.geo.confidence = 5

(***************************************************************************)
(* The OCR study: _is_numeric on one text, and extract_text on the lines   *)
(* the engine returned for one image.                                      *)
(***************************************************************************)
\* length of the studied texts
MaxTextLen == 4

\* lines the engine returns for the studied image
MaxBoxes == 3

\* the characters _is_numeric removes, and a digit, a point and a letter
ProbeChars == {"5", "-", ",", ".", "%", "$", "N"}

RECURSIVE StringsOver(_, _)
StringsOver(chars, n) ==
    IF n = 0 THEN {<<>>}
    ELSE LET shorter == StringsOver(chars, n - 1)
         IN  shorter \cup {Append(q, c) : q \in shorter, c \in chars}

ProbeTexts ==
    StringsOver(ProbeChars, MaxTextLen)
    \cup {<<"1", ",", "2", "3", "4", ".", "5", "%">>, <<"N", "/", "A">>, <<" ", "5", " ">>,
          <<"5", "\r">>, <<"৫">>, <<"$", "৫", ",", "۵", "%">>}

\* centres of the studied boxes in a 100 x 100 image: a corner, the middle,
\* the middles of the four edges, and a point at 0.7 of the width
ProbePoints ==
    {<<0, 0>>, <<50, 0>>, <<0, 50>>, <<50, 50>>, <<100, 50>>, <<50, 100>>,
     <<70, 100>>}

\* a word, and a number with a blank the structurer strips
ProbeBoxTexts == {<<"a", "b">>, <<" ", "7">>}

ProbeLines == {OcrLine(t, pt[1], pt[2]) : t \in ProbeBoxTexts, pt \in ProbePoints}

ProbeLineSeqs == UNION {[1..k -> ProbeLines] : k \in 0..MaxBoxes}

OcrInit ==
    /\ caps = [yolo |-> FALSE, ocr |-> TRUE, llm |-> FALSE]
    /\ NoJobs
    /\ probe \in {[phase |-> "text", text |-> t] : t \in ProbeTexts}
             \cup {[phase |-> "lines", lines |-> q] : q \in ProbeLineSeqs}

ProbeNumeric ==
    /\ probe.phase = "text"
    /\ probe' = [phase |-> "tested", text |-> probe.text,
                 numeric |-> _is_numeric(probe.text)]
    /\ UNCHANGED jobvars

ProbeExtractText ==
    /\ probe.phase = "lines"
    /\ probe' = [phase |-> "structured", lines |-> probe.lines,
                 out |-> extract_text(caps.ocr, OcrReturns(probe.lines))]
    /\ UNCHANGED jobvars

OcrNext == ProbeNumeric \/ ProbeExtractText

OcrSpec == OcrInit /\ [][OcrNext]_vars

(***************************************************************************)
(* Claims about the structurer and the numeric test                        *)
(***************************************************************************)
\* the boxes extract_text builds from the studied lines
ProbeBoxes == [i \in 1..Len(probe.lines) |-> TextBox(probe.lines[i])]

ProbeXs == {ProbeBoxes[i].x_center : i \in 1..Len(probe.lines)}

ProbeYs == {ProbeBoxes[i].y_center : i \in 1..Len(probe.lines)}

SetMin(S) == CHOOSE m \in S : \A v \in S : m <= v

SetMax(S) == CHOOSE m \in S : \A v \in S : m >= v

\* the position of c between lo and hi as a ratio; 1/2 when hi = lo
NormPos(c, lo, hi) == IF hi > lo THEN <<c - lo, hi - lo>> ELSE <<1, 2>>

\* the first rule, in the order title, x-axis, y-axis, value, legend, that a
\* box with this text at this position matches
FirstRule(text, x_pos, y_pos) ==
    LET centred == RatLess(<<3, 10>>, x_pos) /\ RatLess(x_pos, <<7, 10>>)
    IN  IF RatLess(y_pos, <<2, 10>>) /\ centred THEN "title"
        ELSE IF RatLess(<<8, 10>>, y_pos) /\ centred THEN "x_axis"
        ELSE IF RatLess(x_pos, <<15, 100>>) /\ RatLess(<<2, 10>>, y_pos)
                                           /\ RatLess(y_pos, <<8, 10>>)
        THEN "y_axis"
        ELSE IF _is_numeric(text) THEN "value"
        ELSE IF RatLess(<<7, 10>>, x_pos)
                \/ (RatLess(<<7, 10>>, y_pos) /\ RatLess(<<5, 10>>, x_pos))
        THEN "legend"
        ELSE "none"

\* the rule of the i-th studied box
ProbeRule(i) ==
    FirstRule(Strip(ProbeBoxes[i].text),
              NormPos(ProbeBoxes[i].x_center, SetMin(ProbeXs), SetMax(ProbeXs)),
              NormPos(ProbeBoxes[i].y_center, SetMin(ProbeYs), SetMax(ProbeYs)))

\* the texts of the studied boxes of one rule, in input order
ProbeTextsOf(rule) ==
    LET picked == SelectSeq([i \in 1..Len(probe.lines) |-> i],
                            LAMBDA i : ProbeRule(i) = rule)
    IN  [k \in 1..Len(picked) |-> Strip(ProbeBoxes[picked[k]].text)]

\* the first of the longest texts of q, unset when q is empty
LongestOf(q) ==
    IF q = <<>> THEN None
    ELSE Some(q[CHOOSE i \in 1..Len(q) :
                  \A j \in 1..Len(q) : /\ Len(q[j]) <= Len(q[i])
                                       /\ j < i => Len(q[j]) < Len(q[i])])

\* the structured text when every box goes to its first rule and to no other
StructuredByRules ==
    [title |-> LongestOf(ProbeTextsOf("title")),
     x_axis |-> LongestOf(ProbeTextsOf("x_axis")),
     y_axis |-> LongestOf(ProbeTextsOf("y_axis")),
     values |-> ProbeTextsOf("value"),
     legends |-> ProbeTextsOf("legend")]

\* texts the structured text holds, over all five fields
Contributions(st) ==
    Len(st.values) + Len(st.legends)
    + (IF st.title = None THEN 0 ELSE 1) + (IF st.x_axis = None THEN 0 ELSE 1)
    + (IF st.y_axis = None THEN 0 ELSE 1)

\* the studied boxes span a positive range on both axes
ProbeRangesPositive == Cardinality(ProbeXs) > 1 /\ Cardinality(ProbeYs) > 1

\* C11: the structured text never holds more texts than there are boxes, and
\* where the boxes span both axes it is what results when every box is given
\* to the first rule it matches, in the order title, x-axis, y-axis, value,
\* legend, and to no other: a box of no rule is dropped.
C11_FirstRuleOnly ==
    probe.phase = "structured" =>
        /\ Contributions(probe.out.structured) <= Len(probe.lines)
        /\ (probe.lines = <<>> \/ ProbeRangesPositive) =>
              probe.out.structured = StructuredByRules

\* a number at the top centre is the title and not a value, and a word in
\* the middle is dropped
C11_Witness ==
    /\ probe.phase = "structured"
    /\ ProbeRangesPositive
    /\ \E i, j \in 1..Len(probe.lines) :
         /\ ProbeRule(i) = "title" /\ Strip(ProbeBoxes[i].text) = <<"7">>
         /\ ProbeRule(j) = "none"
    /\ probe.out.structured.title = Some(<<"7">>)
    /\ probe.out.structured.values = <<>>
    /\ Contributions(probe.out.structured) < Len(probe.lines)

\* C12: when all boxes share the x_center or the y_center, the structured
\* text is what the rules give with the position on that axis taken as 0.5.
C12_ZeroRangeIsHalf ==
    (probe.phase = "structured" /\ probe.lines # <<>> /\ ~ProbeRangesPositive) =>
        probe.out.structured = StructuredByRules

\* the text with every ',', '%' and '$' and one leading '-' removed
NumericBody(text) ==
    LET kept == Remove(Remove(Remove(text, ","), "%"), "$")
    IN  IF kept # <<>> /\ Head(kept) = "-" THEN Tail(kept) ELSE kept

\* C13: the numeric test is true exactly when the text, with every ',', '%'
\* and '$' and a leading '-' removed, is not empty and parses as a float; a
\* '-' elsewhere stays.
C13_NumericTest ==
    probe.phase = "tested" =>
        probe.numeric = (NumericBody(probe.text) # <<>> /\ IsFloat(NumericBody(probe.text)))

(***************************************************************************)
(* The inference study: _fallback_inference and then generate_inference on *)
(* one OCR result, with the generative model absent, raising or answering. *)
(***************************************************************************)
\* lines of the studied response
MaxLines == 2

\* values of the studied OCR result
MaxValues == 3

\* lines of a response: one for each keyword, in either case, a summary line
\* that names a trend, a summary keyword without a colon, and plain text
ProbeResponseLines ==
    {<<"T", "r", "e", "n", "d", ":", " ", "u", "p">>,
     <<"T", "R", "E", "N", "D", ":", " ", "i", "n", "c", "r", "e", "a", "s", "i", "n", "g">>,
     <<"M", "a", "x", ":", " ", "9">>,
     <<"M", "i", "n", ":", " ", "1">>,
     <<"A", "n", "o", "m", "a", "l", "y", ":", " ", "n", "o">>,
     <<"C", "o", "r", "r", "e", "l", "a", "t", "i", "o", "n", ":", " ", "a">>,
     <<"S", "u", "m", "m", "a", "r", "y", ":", " ", "o", "k", "\r">>,
     <<"S", "u", "m", "m", "a", "r", "y", ":", " ", "t", "r", "e", "n", "d", " ", "u", "p">>,
     <<"s", "u", "m", "m", "a", "r", "y">>,
     <<"t", "e", "x", "t">>}

\* '\n'.join(lines)
RECURSIVE JoinLines(_)
JoinLines(lines) ==
    IF Len(lines) = 1 THEN lines[1]
    ELSE lines[1] \o <<"\n">> \o JoinLines(Tail(lines))

ProbeResponses ==
    {<<>>} \cup {JoinLines(q) : q \in UNION {[1..k -> ProbeResponseLines] : k \in 1..MaxLines}}

\* texts in values: numbers plain, negative, fractional and formatted, nan
\* and inf, and a text float() rejects
ProbeValueTexts ==
    {<<"1">>,
     <<"2">>,
     <<"-", "3">>,
     <<"1", ".", "5">>,
     <<"$", "1", ",", "0", "%">>,
     <<"n", "a", "n">>,
     <<"i", "n", "f">>,
     <<"5", "-">>,
     <<"5", "\r">>,
     <<"৫">>,
     <<"0", ".", "0", "0", "0", "0", "1">>}

\* an OCR result with this title and these values
ProbeOcr(title, values) ==
    [raw_text |-> values, boxes |-> <<>>,
     structured |-> [title |-> title, x_axis |-> None, y_axis |-> None,
                     values |-> values, legends |-> <<>>]]

ProbeOcrResults ==
    {ProbeOcr(t, v) : t \in {None, Some(<<"S", "a", "l", "e", "s">>)},
                      v \in UNION {[1..k -> ProbeValueTexts] : k \in 0..MaxValues}}

\* the model answers on one OCR result; or it is absent or raises, on any
InferInit ==
    /\ caps = [yolo |-> FALSE, ocr |-> FALSE, llm |-> FALSE]
    /\ NoJobs
    /\ probe \in
         {[phase |-> "input", loaded |-> TRUE, llm |-> LlmReturns(t),
           ocr |-> ProbeOcr(None, <<<<"1">>, <<"2">>>>)] : t \in ProbeResponses}
         \cup {[phase |-> "input", loaded |-> l, llm |-> LlmRaises, ocr |-> o] :
                  l \in BOOLEAN, o \in ProbeOcrResults}

ProbeFallback ==
    /\ probe.phase = "input"
    /\ probe' = [phase |-> "fallback", loaded |-> probe.loaded, llm |-> probe.llm,
                 ocr |-> probe.ocr, fb |-> _fallback_inference(probe.ocr)]
    /\ UNCHANGED jobvars

ProbeGenerate ==
    /\ probe.phase = "fallback"
    /\ probe' = [phase |-> "generated", loaded |-> probe.loaded, llm |-> probe.llm,
                 ocr |-> probe.ocr, fb |-> probe.fb,
                 out |-> generate_inference(probe.loaded, probe.llm, "table",
                                            probe.ocr, <<>>)]
    /\ UNCHANGED jobvars

InferNext == ProbeFallback \/ ProbeGenerate

InferSpec == InferInit /\ [][InferNext]_vars

(***************************************************************************)
(* Claims about the Insight generator                                      *)
(***************************************************************************)
\* the model answered: generate_inference parsed its response
ProbeParsed == probe.phase = "generated" /\ probe.loaded /\ ~probe.llm.raises

\* the model was absent or raised: generate_inference did not parse
ProbeFellBack == probe.phase = "generated" /\ (~probe.loaded \/ probe.llm.raises)

\* the line holds the summary keyword, in any case, and a colon
SummaryLine(line) ==
    Contains(Lower(line), <<"s", "u", "m", "m", "a", "r", "y">>) /\ HasColon(line)

\* C14: when a line of the response holds the summary keyword and a colon,
\* the summary is the text after the colon of such a line, whatever else the
\* line holds; when no line does, the summary is the whole response.
C14_SummaryFromSummaryLine ==
    ProbeParsed =>
        LET lines == SplitLines(probe.llm.text)
            matching == {i \in 1..Len(lines) : SummaryLine(lines[i])}
        IN  IF matching # {}
            THEN \E i \in matching : probe.out.summary = AfterColon(lines[i])
            ELSE probe.out.summary = probe.llm.text

\* the values of the trend enumeration
TrendValues ==
    {TrendIncreasing, TrendDecreasing, TrendStable, TrendFluctuating, TrendUnknown}

\* C15, as stated: the trend of every Insight, parsed from a response or
\* computed by the fallback, is unset or one of increasing, decreasing,
\* stable, fluctuating, unknown.
C15_TrendIsEnumerated ==
    /\ probe.phase \in {"fallback", "generated"} =>
          (probe.fb.trend = None \/ probe.fb.trend.some \in TrendValues)
    /\ probe.phase = "generated" =>
          (probe.out.trend = None \/ probe.out.trend.some \in TrendValues)

\* the line holds the trend keyword, in any case, and a colon
TrendLine(line) ==
    Contains(Lower(line), <<"t", "r", "e", "n", "d">>) /\ HasColon(line)

\* C15, amended: the fallback's trend is always set, to increasing,
\* decreasing, stable or unknown; the trend parsed from a response is unset
\* when no line holds the trend keyword and a colon, and otherwise is the text
\* after the colon of the last such line, whatever that text is.
C15_TrendByPath ==
    /\ probe.phase \in {"fallback", "generated"} =>
          /\ probe.fb.trend # None
          /\ probe.fb.trend.some \in {TrendIncreasing, TrendDecreasing, TrendStable,
                                      TrendUnknown}
    /\ ProbeParsed =>
          LET lines == SplitLines(probe.llm.text)
              matching == {i \in 1..Len(lines) : TrendLine(lines[i])}
          IN  IF matching = {} THEN probe.out.trend = None
              ELSE probe.out.trend = Some(AfterColon(lines[SetMax(matching)]))

\* the response has two trend lines and the Insight's trend is the text of
\* the second, which is no value of the enumeration
C15_Witness ==
    /\ ProbeParsed
    /\ probe.llm.text = <<"T", "R", "E", "N", "D", ":", " ", "i", "n", "c", "r",
                          "e", "a", "s", "i", "n", "g", "\n",
                          "T", "r", "e", "n", "d", ":", " ", "u", "p">>
    /\ probe.out.trend = Some(<<"u", "p">>)
    /\ probe.fb.trend = Some(TrendIncreasing)

\* a <= b on floats
FloatLeq(a, b) == a.kind # "nan" /\ b.kind # "nan" /\ ~FloatLess(b, a)

\* the numbers among the studied values, in input order: the texts float()
\* accepts once ',', '%' and '$' are removed
ProbeNumbers ==
    LET cleaned(v) == Remove(Remove(Remove(v, ","), "%"), "$")
        values == probe.ocr.structured.values
        parsing == SelectSeq(values, LAMBDA v : IsFloat(cleaned(v)))
    IN  [i \in 1..Len(parsing) |-> FloatValue(cleaned(parsing[i]))]

\* C16: the fallback Insight of values of which at least 2 parse as numbers
\* has trend increasing, decreasing or stable as the last number is greater
\* than, smaller than or equal to the first, and max_point and min_point hold
\* the greatest and the least of the numbers, min <= max; with fewer than 2
\* numbers the trend is unknown and both points are unset.  Correlations and
\* anomalies are empty.
C16_FallbackInsight ==
    probe.phase \in {"fallback", "generated"} =>
        LET nums == ProbeNumbers
            k == Len(nums)
            fb == probe.fb
        IN  /\ fb.correlations = <<>> /\ fb.anomalies = <<>>
            /\ IF k >= 2
               THEN /\ FloatLess(nums[1], nums[k]) => fb.trend = Some(TrendIncreasing)
                    /\ FloatLess(nums[k], nums[1]) => fb.trend = Some(TrendDecreasing)
                    /\ (FloatLeq(nums[1], nums[k]) /\ FloatLeq(nums[k], nums[1]))
                          => fb.trend = Some(TrendStable)
                    /\ fb.trend.some \in {TrendIncreasing, TrendDecreasing, TrendStable}
                    /\ fb.max_point # None /\ fb.min_point # None
                    /\ \E i \in 1..k : fb.max_point.value = nums[i]
                    /\ \E i \in 1..k : fb.min_point.value = nums[i]
                    /\ \A i \in 1..k : /\ FloatLeq(nums[i], fb.max_point.value)
                                       /\ FloatLeq(fb.min_point.value, nums[i])
                    /\ FloatLeq(fb.min_point.value, fb.max_point.value)
                    /\ fb.max_point.label = FloatStr(fb.max_point.value)
                    /\ fb.min_point.label = FloatStr(fb.min_point.value)
               ELSE /\ fb.trend = Some(TrendUnknown)
                    /\ fb.max_point = None /\ fb.min_point = None

\* C17: when the generative model is absent or its invocation raises,
\* generate_inference returns the fallback Insight of the same OCR result,
\* an Insight with all six fields, and raises nothing.
C17_FallsBackOnFailure ==
    ProbeFellBack =>
        /\ probe.out = probe.fb
        /\ DOMAIN probe.out = {"trend", "max_point", "min_point", "correlations",
                               "anomalies", "summary"}

\* the loaded model raised on an OCR result titled Sales with the values 1
\* and 2, and the Insight is the fallback's: increasing, with its sentence
C17_Witness ==
    /\ ProbeFellBack /\ probe.loaded /\ probe.llm.raises
    /\ probe.ocr.structured.values = <<<<"1">>, <<"2">>>>
    /\ probe.ocr.structured.title # None
    /\ probe.out.trend = Some(TrendIncreasing)
    /\ probe.out.max_point.label = <<"2", ".", "0">>
    /\ probe.out.summary =
          <<"Chart with title '">> \o <<"S", "a", "l", "e", "s">> \o <<"' showing ">>
          \o <<"2">> \o <<" data points. Trend appears to be ">> \o TrendIncreasing
          \o <<".">>

\* C23: when every studied value passes the numeric test of the structurer,
\* the fallback parses every one of them as a number, so the count of data
\* points in its summary is the count of the numbers it computed trend and
\* extrema from.
C23_AcceptedValuesAreParsed ==
    probe.phase \in {"fallback", "generated"} =>
        LET values == probe.ocr.structured.values
        IN  (\A i \in DOMAIN values : _is_numeric(values[i])) =>
                /\ Len(ProbeNumbers) = Len(values)
                /\ probe.fb.summary =
                      FallbackSummary(probe.ocr.structured.title, Len(ProbeNumbers),
                                      probe.fb.trend.some)

(***************************************************************************)
(* The upload study: the handler of the PDF upload on one file name.       *)
(***************************************************************************)
\* suffixes of the studied names: of a document in either case, of the
\* images, of other files, and none
ProbeSuffixes ==
    {<<".", "p", "d", "f">>, <<".", "P", "D", "F">>, <<".", "P", "d", "f">>,
     <<".", "p", "n", "g">>, <<".", "P", "N", "G">>, <<".", "j", "p", "g">>,
     <<".", "j", "p", "e", "g">>, <<".", "g", "i", "f">>, <<".", "b", "m", "p">>,
     <<".", "t", "x", "t">>, <<".", "d", "o", "c", "x">>, <<".", "p", "d">>, <<>>}

\* the studied names, and the empty name
ProbeFileNames ==
    {FileName(<<"r">>, s) : s \in ProbeSuffixes} \cup {FileName(<<>>, <<>>)}

UploadInit ==
    /\ caps \in Capabilities
    /\ NoTasks
    /\ storage \in ExistingStores
    /\ probe \in {[phase |-> "name", filename |-> f] : f \in ProbeFileNames}

\* pdf_router.py lines 35-73 on the studied name: the handler raises, or
\* creates the entry, queues the job and answers
ProbeUploadPdf ==
    /\ probe.phase = "name"
    /\ IF upload_pdf_refusal(probe.filename) # None
       THEN /\ probe' = [phase |-> "answered", filename |-> probe.filename,
                         response |-> upload_pdf_refusal(probe.filename)]
            /\ UNCHANGED jobvars
       ELSE /\ probe' = [phase |-> "answered", filename |-> probe.filename,
                         response |-> upload_pdf_response(FreshTaskId)]
            /\ upload_pdf_accepted(probe.filename)

UploadNext == ProbeUploadPdf

UploadSpec == UploadInit /\ [][UploadNext]_vars

(***************************************************************************)
(* Claims about the uploads                                                *)
(***************************************************************************)
\* C25: for a name that is not empty and whose extension is not .pdf, the
\* PDF upload answers with the error 'Only PDF files are allowed', and no
\* status entry exists and no job is queued.
C25_OnlyPdfAccepted ==
    (/\ probe.phase = "answered"
     /\ ~NoFileName(probe.filename)
     /\ Lower(probe.filename.suffix) # <<".", "p", "d", "f">>) =>
        /\ probe.response = HTTPException(400, <<"Only PDF files are allowed">>)
        /\ Tasks = {}
        /\ job = <<>>

(***************************************************************************)
(* Inputs of the storage study: calls on the one JSONStorage               *)
(* (services/json_storage.py), from whatever caller                        *)
(***************************************************************************)
\* save_extraction calls of a run
MaxSaves == 2

\* the results handed to save_extraction
ProbeResults == {[pdf_name |-> <<"a.pdf">>], [pdf_name |-> <<"b.pdf">>]}

\* the identifiers asked of get_extraction
ProbeIds == {ExtractionId(c) : c \in 0..MaxClock} \cup {EarlierRecord.extraction_id}

\* lines 16-23, 88-96: the storage as first constructed; saved holds, per
\* save_extraction call that returned, the identifier returned and the
\* result handed over
StorageInit ==
    /\ caps = [yolo |-> FALSE, ocr |-> FALSE, llm |-> FALSE]
    /\ NoTasks
    /\ storage \in ExistingStores
    /\ probe = [calls |-> 0, saved |-> <<>>, cleared |-> FALSE, out |-> NoOut]

\* lines 38-58: a save that returns
ProbeSaveExtraction ==
    /\ probe.calls < MaxSaves
    /\ \E result \in ProbeResults : \E now \in Readings :
          \E later \in ReadingsAfter(now) :
             /\ storage' = save_extraction(storage, result, now, later)
             /\ clock' = later
             /\ probe' = [probe EXCEPT
                            !.calls = @ + 1,
                            !.saved = Append(@, [id |-> ExtractionId(now),
                                                 result |-> result]),
                            !.out = <<"save_extraction", ExtractionId(now)>>]
    /\ UNCHANGED <<caps, processing_status, job, running, used, hist>>

\* lines 38-56: a save whose write (line 56) raises
ProbeSaveRaises ==
    /\ probe.calls < MaxSaves
    /\ storage' = write_raises(storage)
    /\ probe' = [probe EXCEPT !.calls = @ + 1,
                              !.out = <<"save_extraction", "raises">>]
    /\ UNCHANGED <<caps, processing_status, job, running, clock, used, hist>>

\* lines 60-68
ProbeGetExtraction ==
    /\ \E extraction_id \in ProbeIds :
          probe' = [probe EXCEPT
                      !.out = <<"get_extraction",
                                get_extraction(storage, extraction_id)>>]
    /\ UNCHANGED jobvars

\* lines 70-73
ProbeGetAllExtractions ==
    /\ probe' = [probe EXCEPT
                   !.out = <<"get_all_extractions", get_all_extractions(storage)>>]
    /\ UNCHANGED jobvars

\* lines 82-84
ProbeClearAll ==
    /\ storage' = clear_all(storage)
    /\ probe' = [probe EXCEPT !.cleared = TRUE, !.out = <<"clear_all", None>>]
    /\ UNCHANGED <<caps, processing_status, job, running, clock, used, hist>>

StorageNext ==
    \/ ProbeSaveExtraction
    \/ ProbeSaveRaises
    \/ ProbeGetExtraction
    \/ ProbeGetAllExtractions
    \/ ProbeClearAll

StorageSpec == StorageInit /\ [][StorageNext]_vars

(***************************************************************************)
(* Claims about the storage                                                *)
(***************************************************************************)
\* C22: as long as clear_all has not been called, every save that returned
\* finds under the identifier it returned the record of that very save (the
\* result it was handed), and no two saves returned the same identifier.
C22_SavedResultsRetrievable ==
    ~probe.cleared =>
        /\ \A i \in DOMAIN probe.saved :
              LET got == get_extraction(storage, probe.saved[i].id)
              IN  /\ got # None
                  /\ [f \in DOMAIN probe.saved[i].result |-> got[f]]
                        = probe.saved[i].result
        /\ \A i, j \in DOMAIN probe.saved :
              i # j => probe.saved[i].id # probe.saved[j].id

====
